---------------------------- MODULE Spec2Model ----------------------------
(***************************************************************************)
(* ASM64 two-pass assembler core: the driver state of assembler.c, the     *)
(* symbol store and anonymous-label tracker of symbols.c, the evaluator of *)
(* expr.c and the opcode table of opcodes.c, as a state machine whose      *)
(* steps are the statements of pass 1 and the stored lines of pass 2.      *)
(***************************************************************************)
EXTENDS Integers, Sequences, FiniteSets, TLC

(***************************************************************************)
(* Bounds of the model and program constants.                              *)
(***************************************************************************)
\* longest source, in statements, of the general specification
MaxLines == 4
\* longest source of the anonymous-label specification
MaxAnonLines == 4
\* longest source of the conditional specification
MaxCondLines == 4
\* longest source of the pseudo-PC specification
MaxPseudoLines == 5
\* longest source of the branch specification
MaxBranchLines == 4
\* longest source of the output specification
MaxOutputLines == 4
\* lines of a source of the loop cases
MaxLoopLines == 3
\* lines of a source of the macro cases
MaxMacroLines == 3
\* lines of a source of the include cases
MaxIncludeLines == 3
\* lines of a source of the cases of a reused object, and assemblies of one object
MaxReuseLines == 2
MaxRuns == 2
\* lines of a source of the error cases
MaxErrorLines == 3
\* source lines per assembly, CPU selection
MaxCpuLines == 3
\* source lines per assembly, !while loops
MaxWhileLines == 3
\* source lines per assembly, stack depths
MaxStackLines == 3
\* source lines per assembly, listing records
MaxListingLines == 3
\* source lines per assembly, symbol flags
MaxFlagLines == 3
\* the turns of one !for loop that are followed
MaxTurns == 4

ASM_MEMORY_SIZE == 65536
ASM_DEFAULT_ORG == 2049
ASM_MAX_ERRORS == 100
ASM_MAX_WARNINGS == 100
ASM_MAX_COND_DEPTH == 64
ASM_MAX_LOOP_DEPTH == 64
ASM_MAX_MACRO_DEPTH == 32
ASM_MAX_INCLUDE_DEPTH == 32
\* the cap of assembler_loop_while on the turns of one loop
WhileMaxIterations == 100000

IntMin == -2147483647 - 1
IntMax == -(IntMin + 1)

Mod16(x) == x % ASM_MEMORY_SIZE
LowByte(x) == x % 256
HighByte(x) == (x \div 256) % 256

(***************************************************************************)
(* Expressions (expr.h): number, symbol reference, current-PC marker.      *)
(* An anonymous reference is a symbol whose name is the synthetic prefix   *)
(* followed by the run length, kept here as the field count.               *)
(***************************************************************************)
AnonFwdPrefix == "__anon_fwd_"
AnonBackPrefix == "__anon_back_"

Expr(t, n, s, k, l) == [type |-> t, number |-> n, symbol |-> s, count |-> k, local |-> l]
NoExpr == Expr("null", 0, "", 0, FALSE)
Num(n) == Expr("number", n, "", 0, FALSE)
Sym(s) == Expr("symbol", 0, s, 0, FALSE)
\* the string argument of a directive
Str(s) == Expr("string", 0, s, 0, FALSE)
\* a reference .name: symbol holds the part after the dot
LocalSym(s) == Expr("symbol", 0, s, 0, TRUE)
CurPC == Expr("current", 0, "", 0, FALSE)
AnonFwdRef(k) == Expr("symbol", 0, AnonFwdPrefix, k, FALSE)
AnonBackRef(k) == Expr("symbol", 0, AnonBackPrefix, k, FALSE)

(***************************************************************************)
(* Symbol store (symbols.c).  A table is a function from the names that    *)
(* have an entry to [value, defined, zeropage, constant].                  *)
(***************************************************************************)
Flags(d, z, c, f) == [defined |-> d, zeropage |-> z, constant |-> c, force_update |-> f]
SYM_DEFINED == Flags(TRUE, FALSE, FALSE, FALSE)
SYM_CONSTANT == Flags(FALSE, FALSE, TRUE, FALSE)
SYM_DEFINED_FORCE_UPDATE == Flags(TRUE, FALSE, FALSE, TRUE)
SYM_DEFINED_CONSTANT == Flags(TRUE, FALSE, TRUE, FALSE)
WithZeropage(flags) == [flags EXCEPT !.zeropage = TRUE]

symbol_lookup(table, name) == name \in DOMAIN table

\* symbol_define: [table, ok]; ok = FALSE is the NULL return
symbol_define(table, name, value, flags) ==
  IF name \in DOMAIN table
  THEN LET sym == table[name] IN
       IF sym.constant /\ ~flags.force_update
       THEN [table |-> table, ok |-> FALSE]
       ELSE [table |-> [table EXCEPT ![name] =
                          [value |-> value,
                           defined |-> TRUE,
                           zeropage |-> sym.zeropage \/ flags.zeropage,
                           constant |-> (sym.constant /\ ~flags.force_update)
                                        \/ flags.constant]],
             ok |-> TRUE]
  ELSE [table |-> (name :> [value |-> value, defined |-> TRUE,
                            zeropage |-> flags.zeropage,
                            constant |-> flags.constant]) @@ table,
        ok |-> TRUE]

(***************************************************************************)
(* Anonymous-label tracker (symbols.c).                                    *)
(***************************************************************************)
anon_resolve_forward(forward, forward_index, count) ==
  IF count < 1 THEN -1
  ELSE LET target_index == forward_index + count - 1 IN
       IF target_index >= Len(forward) THEN -1 ELSE forward[target_index + 1]

\* a resolver that counts from the oldest - label
anon_resolve_backward_oldest(backward, count) ==
  IF count < 1 THEN -1
  ELSE LET target_index == count - 1 IN
       IF target_index >= Len(backward) THEN -1 ELSE backward[target_index + 1]

anon_resolve_backward(backward, count) ==
  IF count < 1 THEN -1
  ELSE LET target_index == Len(backward) - count IN
       IF target_index < 0 THEN -1 ELSE backward[target_index + 1]

anon_advance_forward(forward, forward_index) ==
  IF forward_index < Len(forward) THEN forward_index + 1 ELSE forward_index

(***************************************************************************)
(* Local-label mangling (expr.c mangle_local_name, assembler.c             *)
(* define_label): the empty zone stands for the NULL zone.                 *)
(***************************************************************************)
NullZone == ""
mangle_local_name(local_part, zone) ==
  IF zone = NullZone THEN "_global." \o local_part ELSE zone \o "." \o local_part

(***************************************************************************)
(* expr_eval (expr.c): [value, defined, is_zeropage, forward_index]; the   *)
(* last field is the tracker's cursor after the evaluation.                *)
(***************************************************************************)
EvalResult(v, d, z, fi) == [value |-> v, defined |-> d, is_zeropage |-> z, forward_index |-> fi]

expr_eval(expr, S) ==
  CASE expr.type = "null" -> EvalResult(0, FALSE, FALSE, S.forward_index)
    [] expr.type = "number" ->
         EvalResult(expr.number, TRUE, expr.number >= 0 /\ expr.number <= 255, S.forward_index)
    [] expr.type = "current" -> EvalResult(S.pc, TRUE, S.pc <= 255, S.forward_index)
    [] expr.type = "symbol" /\ expr.symbol = AnonFwdPrefix ->
         IF S.pass = 1 THEN EvalResult(0, FALSE, FALSE, S.forward_index)
         ELSE LET addr == anon_resolve_forward(S.forward, S.forward_index, expr.count)
                  fi == anon_advance_forward(S.forward, S.forward_index) IN
              IF addr < 0 THEN EvalResult(0, FALSE, FALSE, fi)
              ELSE EvalResult(addr, TRUE, addr <= 255, fi)
    [] expr.type = "symbol" /\ expr.symbol = AnonBackPrefix ->
         LET addr == anon_resolve_backward(S.backward, expr.count) IN
         IF addr < 0 THEN EvalResult(0, FALSE, FALSE, S.forward_index)
         ELSE EvalResult(addr, TRUE, addr <= 255, S.forward_index)
    [] OTHER ->
         LET name == IF expr.local THEN mangle_local_name(expr.symbol, S.current_zone)
                     ELSE expr.symbol IN
         IF ~symbol_lookup(S.symbols, name) \/ ~S.symbols[name].defined
         THEN EvalResult(0, FALSE, FALSE, S.forward_index)
         ELSE LET sym == S.symbols[name] IN
              EvalResult(sym.value, TRUE,
                         sym.zeropage \/ (sym.value >= 0 /\ sym.value <= 255),
                         S.forward_index)

(***************************************************************************)
(* Opcode table (opcodes.c), the rows of the mnemonics the model uses.     *)
(***************************************************************************)
OpcodeEntry(m, mode, op, size) == [mnemonic |-> m, mode |-> mode, opcode |-> op, size |-> size]

opcode_table ==
  { OpcodeEntry("BNE", "RELATIVE", 208, 2),
    OpcodeEntry("JMP", "ABSOLUTE", 76, 3),
    OpcodeEntry("JMP", "INDIRECT", 108, 3),
    OpcodeEntry("LAX", "ZEROPAGE", 167, 2),
    OpcodeEntry("LAX", "ABSOLUTE", 175, 3),
    OpcodeEntry("LDA", "IMMEDIATE", 169, 2),
    OpcodeEntry("LDA", "ZEROPAGE", 165, 2),
    OpcodeEntry("LDA", "ZEROPAGE_X", 181, 2),
    OpcodeEntry("LDA", "ABSOLUTE", 173, 3),
    OpcodeEntry("LDA", "ABSOLUTE_X", 189, 3),
    OpcodeEntry("LDA", "ABSOLUTE_Y", 185, 3),
    OpcodeEntry("LDA", "INDIRECT_X", 161, 2),
    OpcodeEntry("LDA", "INDIRECT_Y", 177, 2),
    OpcodeEntry("LDX", "IMMEDIATE", 162, 2),
    OpcodeEntry("LDX", "ZEROPAGE", 166, 2),
    OpcodeEntry("LDX", "ZEROPAGE_Y", 182, 2),
    OpcodeEntry("LDX", "ABSOLUTE", 174, 3),
    OpcodeEntry("LDX", "ABSOLUTE_Y", 190, 3),
    OpcodeEntry("NOP", "IMPLIED", 234, 1),
    OpcodeEntry("RTS", "IMPLIED", 96, 1) }

\* opcode_find: the set of matching rows; empty is the NULL return
opcode_find(mnemonic, mode) ==
  {e \in opcode_table : e.mnemonic = mnemonic /\ e.mode = mode}

OpcodeOf(mnemonic, mode) == CHOOSE e \in opcode_find(mnemonic, mode) : TRUE

\* opcode_find_by_opcode: the rows with the opcode; empty is the NULL return
opcode_find_by_opcode(opcode) == {e \in opcode_table : e.opcode = opcode}

\* opcode_is_illegal: the INST_ILLEGAL flag of the mnemonic
opcode_is_illegal(mnemonic) == mnemonic \in {"LAX"}

assembler_is_zeropage(addr) == addr >= 0 /\ addr <= 255

(***************************************************************************)
(* Statements (parser.h).  One record shape for every statement type.      *)
(***************************************************************************)
Label(kind, name) == [kind |-> kind, name |-> name]
NoLabel == Label("none", "")
GlobalLabel(n) == Label("global", n)
LocalLabel(n) == Label("local", n)
AnonFwdLabel == Label("anon_fwd", "+")
AnonBackLabel == Label("anon_back", "-")

Shape(hash, x, y, ind) == [has_hash |-> hash, has_x_index |-> x, has_y_index |-> y, is_indirect |-> ind]
Plain == Shape(FALSE, FALSE, FALSE, FALSE)
Immediate == Shape(TRUE, FALSE, FALSE, FALSE)
IndexedX == Shape(FALSE, TRUE, FALSE, FALSE)
IndexedY == Shape(FALSE, FALSE, TRUE, FALSE)

Statement(label, type, name, shape, operand, args) ==
  [label |-> label, type |-> type, name |-> name, shape |-> shape,
   operand |-> operand, args |-> args,
   mode |-> "INVALID", opcode |-> 0, size |-> 0, line |-> 0, body |-> <<>>]

Empty == Statement(NoLabel, "EMPTY", "", Plain, NoExpr, <<>>)
LabelOnly(l) == Statement(l, "LABEL", "", Plain, NoExpr, <<>>)
Instr(l, m, shape, operand) == Statement(l, "INSTRUCTION", m, shape, operand, <<>>)
Directive(l, name, args) == Statement(l, "DIRECTIVE", name, Plain, NoExpr, args)
Assign(name, value) == Statement(NoLabel, "ASSIGNMENT", name, Plain, value, <<>>)
MacroCall(name, args) == Statement(NoLabel, "MACRO_CALL", name, Plain, NoExpr, args)
\* a directive followed by the lines it collects up to its closing
\* directive (!for, !while, !macro), or naming the file whose lines it
\* reads (!source); body holds those lines
Block(name, args, body) == [Directive(NoLabel, name, args) EXCEPT !.body = body]

(***************************************************************************)
(* The statement parser is not part of the sources at hand; its addressing *)
(* mode selection follows section 4.5 of the specification and the         *)
(* contract of detect_addressing_mode in parser.h.                         *)
(***************************************************************************)
is_branch_instruction(mnemonic) == mnemonic \in {"BCC", "BCS", "BEQ", "BMI", "BNE", "BPL", "BVC", "BVS"}

detect_addressing_mode(mnemonic, expr, shape, value, value_known) ==
  CASE is_branch_instruction(mnemonic) -> "RELATIVE"
    [] shape.has_hash -> "IMMEDIATE"
    [] expr.type = "null" ->
         IF opcode_find(mnemonic, "ACCUMULATOR") # {} THEN "ACCUMULATOR" ELSE "IMPLIED"
    [] shape.is_indirect ->
         IF shape.has_x_index THEN "INDIRECT_X"
         ELSE IF shape.has_y_index THEN "INDIRECT_Y" ELSE "INDIRECT"
    [] shape.has_x_index ->
         IF value_known /\ assembler_is_zeropage(value) /\ opcode_find(mnemonic, "ZEROPAGE_X") # {}
         THEN "ZEROPAGE_X" ELSE "ABSOLUTE_X"
    [] shape.has_y_index ->
         IF value_known /\ assembler_is_zeropage(value) /\ opcode_find(mnemonic, "ZEROPAGE_Y") # {}
         THEN "ZEROPAGE_Y" ELSE "ABSOLUTE_Y"
    [] OTHER ->
         IF value_known /\ assembler_is_zeropage(value) /\ opcode_find(mnemonic, "ZEROPAGE") # {}
         THEN "ZEROPAGE" ELSE "ABSOLUTE"

\* parser_parse_line on one source line: the statement with its line number
\* and, for an instruction, the mode, opcode and size chosen at parse time.
\* The parser holds the symbol table but not the anonymous-label tracker.
parser_parse_line(src, S, line) ==
  IF src.type # "INSTRUCTION" THEN [src EXCEPT !.line = line]
  ELSE LET r == expr_eval(src.operand,
                          [S EXCEPT !.forward = <<>>, !.backward = <<>>, !.current_zone = NullZone])
           mode == detect_addressing_mode(src.name, src.operand, src.shape, r.value, r.defined)
       IN IF opcode_find(src.name, mode) = {}
          THEN [src EXCEPT !.type = "ERROR", !.line = line]
          ELSE [src EXCEPT !.mode = mode,
                           !.opcode = OpcodeOf(src.name, mode).opcode,
                           !.size = OpcodeOf(src.name, mode).size,
                           !.line = line]

(***************************************************************************)
(* Diagnostics and code emission (assembler.c).                            *)
(***************************************************************************)
\* S.reported counts the messages printed
assembler_error(S) ==
  IF S.errors >= ASM_MAX_ERRORS THEN S
  ELSE [S EXCEPT !.errors = @ + 1, !.reported = @ + 1]

\* a warning that is counted as an error
assembler_warning_as_error(S) ==
  IF S.warnings >= ASM_MAX_WARNINGS THEN S
  ELSE [S EXCEPT !.warnings = @ + 1, !.errors = @ + 1]

assembler_warning(S) ==
  IF S.warnings >= ASM_MAX_WARNINGS THEN S ELSE [S EXCEPT !.warnings = @ + 1]

\* memory holds the written cells; every other cell reads 0
MemAt(memory, addr) == IF addr \in DOMAIN memory THEN memory[addr] ELSE 0

\* an emission that writes at the virtual PC
assembler_emit_byte_virtual(S, byte) ==
  LET output_addr == S.pc IN
  [S EXCEPT !.lowest_addr = IF output_addr < @ THEN output_addr ELSE @,
            !.highest_addr = IF output_addr > @ THEN output_addr ELSE @,
            !.memory = (output_addr :> byte) @@ @,
            !.trace = Append(@, output_addr),
            !.block_trace = Append(@, output_addr),
            !.pc = Mod16(@ + 1),
            !.real_pc = Mod16(@ + 1)]

\* an emission that tracks only the highest address written
assembler_emit_byte_high_only(S, byte) ==
  LET output_addr == IF S.in_pseudopc THEN S.real_pc ELSE S.pc IN
  [S EXCEPT !.highest_addr = IF output_addr > @ THEN output_addr ELSE @,
            !.memory = (output_addr :> byte) @@ @,
            !.trace = Append(@, output_addr),
            !.block_trace = Append(@, output_addr),
            !.pc = Mod16(@ + 1),
            !.real_pc = Mod16(@ + 1)]

assembler_emit_byte(S, byte) ==
  LET output_addr == IF S.in_pseudopc THEN S.real_pc ELSE S.pc IN
  [S EXCEPT !.lowest_addr = IF output_addr < @ THEN output_addr ELSE @,
            !.highest_addr = IF output_addr > @ THEN output_addr ELSE @,
            !.memory = (output_addr :> byte) @@ @,
            !.trace = Append(@, output_addr),
            !.block_trace = Append(@, output_addr),
            !.pc = Mod16(@ + 1),
            !.real_pc = Mod16(@ + 1)]

assembler_emit_word(S, word) ==
  assembler_emit_byte(assembler_emit_byte(S, LowByte(word)), HighByte(word))

\* assembler_get_output: the start address and the size of the output
assembler_get_output(S) ==
  IF S.lowest_addr > S.highest_addr
  THEN [start_addr |-> S.org, size |-> 0]
  ELSE [start_addr |-> S.lowest_addr, size |-> S.highest_addr - S.lowest_addr + 1]

\* assembler_write_output: whether a file is written, its length and the
\* warnings after the call; prg tells the PRG format from the raw one
assembler_write_output(S, prg) ==
  IF S.lowest_addr > S.highest_addr
  THEN [written |-> FALSE, length |-> 0, warnings |-> assembler_warning(S).warnings]
  ELSE [written |-> TRUE,
        length |-> (IF prg THEN 2 ELSE 0) + (S.highest_addr - S.lowest_addr + 1),
        warnings |-> S.warnings]

assembler_set_pc(S, new_pc) ==
  [S EXCEPT !.pc = new_pc,
            !.real_pc = IF S.in_pseudopc THEN @ ELSE new_pc,
            !.org = IF S.pass = 1 /\ Len(S.lines) = 0 THEN new_pc ELSE @]

assembler_advance_pc(S, count) ==
  [S EXCEPT !.pc = Mod16(@ + count), !.real_pc = Mod16(@ + count)]

assembler_calc_branch_offset(target, pc) ==
  LET offset == Mod16(target) - (pc + 2) IN
  IF offset < -128 \/ offset > 127 THEN IntMin ELSE offset

\* the evaluation a handler makes: the cursor of the tracker moves; the
\* result is kept for observation, with the role of the expression, and
\* S.undefined records a pass-2 evaluation of an operand, a data argument
\* or an assignment's right-hand side that came out undefined
Evaluated(S, r, role) ==
  [S EXCEPT !.forward_index = r.forward_index,
            !.result = [value |-> r.value, defined |-> r.defined, role |-> role],
            !.undefined = @ \/ (S.pass = 2 /\ ~r.defined
                                /\ role \in {"operand", "data", "assignment"})]

(***************************************************************************)
(* Statement assembly (assembler.c).  Every handler maps the assembler     *)
(* record S to the record after the call; S.stmt is the statement being    *)
(* assembled, S.failed records a -1 return.                                *)
(***************************************************************************)
Fail(S) == [assembler_error(S) EXCEPT !.failed = TRUE]

\* observation: S.peak holds, for each of the four stacks, the greatest
\* depth a push has brought it to
Pushed(S, stack, depth) ==
  [S EXCEPT !.peak[stack] = IF depth > @ THEN depth ELSE @]

define_label(S, label) ==
  LET flags == IF assembler_is_zeropage(S.pc) THEN WithZeropage(SYM_DEFINED) ELSE SYM_DEFINED IN
  CASE label.kind = "anon_fwd" -> [S EXCEPT !.forward = Append(@, S.pc)]
    [] label.kind = "anon_back" -> [S EXCEPT !.backward = Append(@, S.pc)]
    [] label.kind = "local" ->
         [S EXCEPT !.symbols =
            symbol_define(@, mangle_local_name(label.name, S.current_zone), S.pc, flags).table]
    [] OTHER ->
         [S EXCEPT !.symbols = symbol_define(@, label.name, S.pc, flags).table,
                   !.current_zone = label.name]

\* the zero-page variant pass 2 looks for once the operand value is known
ZeropageVariant(info, operand_value) ==
  IF ~assembler_is_zeropage(operand_value) THEN info.mode
  ELSE CASE info.mode = "ABSOLUTE" /\ opcode_find(info.name, "ZEROPAGE") # {} -> "ZEROPAGE"
         [] info.mode = "ABSOLUTE_X" /\ opcode_find(info.name, "ZEROPAGE_X") # {} -> "ZEROPAGE_X"
         [] info.mode = "ABSOLUTE_Y" /\ opcode_find(info.name, "ZEROPAGE_Y") # {} -> "ZEROPAGE_Y"
         [] OTHER -> info.mode

\* a rewrite that takes the zero-page encoding together with its size
Reoptimise_resize(info, new_mode) ==
  IF new_mode # info.mode /\ opcode_find(info.name, new_mode) # {}
  THEN [info EXCEPT !.mode = new_mode, !.opcode = OpcodeOf(info.name, new_mode).opcode,
                    !.size = OpcodeOf(info.name, new_mode).size]
  ELSE info

\* the rewrite of the stored instruction: mode and opcode, only at equal size
Reoptimise(info, new_mode) ==
  IF new_mode # info.mode /\ opcode_find(info.name, new_mode) # {}
     /\ OpcodeOf(info.name, new_mode).size = info.size
  THEN [info EXCEPT !.mode = new_mode, !.opcode = OpcodeOf(info.name, new_mode).opcode]
  ELSE info

\* the emission switch of assembler_assemble_instruction
EmitInstruction(S, info, operand_value) ==
  LET e1 == assembler_emit_byte(S, info.opcode) IN
  CASE info.size = 2 -> assembler_emit_byte(e1, operand_value % 256)
    [] info.size = 3 -> assembler_emit_word(e1, operand_value % 65536)
    [] OTHER -> e1

\* the instruction's operand evaluated, or the defaults when it has none
OperandEvaluated(S) ==
  IF S.stmt.operand.type # "null"
  THEN Evaluated(S, expr_eval(S.stmt.operand, S), "operand")
  ELSE [S EXCEPT !.result = [value |-> 0, defined |-> TRUE, role |-> "none"]]

\* a relative branch, operand evaluated
AssembleBranch(E) ==
  IF E.pass = 2
  THEN IF assembler_calc_branch_offset(E.result.value, E.pc) = IntMin THEN Fail(E)
       ELSE assembler_emit_byte(assembler_emit_byte(E, E.stmt.opcode),
                                assembler_calc_branch_offset(E.result.value, E.pc) % 256)
  ELSE assembler_advance_pc(E, 2)

\* the stored instruction after the pass-2 look at its mode
Reoptimised(E) ==
  IF E.pass = 2 /\ E.result.defined
  THEN [E EXCEPT !.stmt = Reoptimise(@, ZeropageVariant(@, E.result.value))]
  ELSE E

EmitOrAdvance(R) ==
  IF R.pass = 2 THEN EmitInstruction(R, R.stmt, R.result.value)
  ELSE assembler_advance_pc(R, R.stmt.size)

\* the instruction with its operand evaluated
AssembleOperand(E) ==
  IF E.stmt.operand.type # "null" /\ E.pass = 2 /\ ~E.result.defined THEN Fail(E)
  ELSE IF E.stmt.mode = "RELATIVE" THEN AssembleBranch(E)
  ELSE EmitOrAdvance(Reoptimised(E))

assembler_assemble_instruction(S) ==
  IF S.stmt.mode \in {"ACCUMULATOR", "IMPLIED"}
  THEN IF S.pass = 2 THEN assembler_emit_byte(S, S.stmt.opcode) ELSE assembler_advance_pc(S, 1)
  ELSE AssembleOperand(OperandEvaluated(S))

\* !byte and !word over the argument list, stopping at the first failure
ByteArgument(E) ==
  IF E.pass = 2
  THEN assembler_emit_byte(IF E.result.value < -128 \/ E.result.value > 255
                           THEN assembler_warning(E) ELSE E,
                           E.result.value % 256)
  ELSE assembler_advance_pc(E, 1)

WordArgument(E) ==
  IF E.pass = 2 THEN assembler_emit_word(E, E.result.value % 65536)
  ELSE assembler_advance_pc(E, 2)

RECURSIVE assemble_byte_directive(_, _)
assemble_byte_directive(S, args) ==
  IF args = <<>> THEN S
  ELSE IF S.pass = 2 /\ ~expr_eval(Head(args), S).defined
       THEN Fail(Evaluated(S, expr_eval(Head(args), S), "data"))
       ELSE assemble_byte_directive(
              ByteArgument(Evaluated(S, expr_eval(Head(args), S), "data")), Tail(args))

RECURSIVE assemble_word_directive(_, _)
assemble_word_directive(S, args) ==
  IF args = <<>> THEN S
  ELSE IF S.pass = 2 /\ ~expr_eval(Head(args), S).defined
       THEN Fail(Evaluated(S, expr_eval(Head(args), S), "data"))
       ELSE assemble_word_directive(
              WordArgument(Evaluated(S, expr_eval(Head(args), S), "data")), Tail(args))

assemble_org_directive(S, args) ==
  IF Len(args) < 1 THEN Fail(S)
  ELSE LET r == expr_eval(args[1], S)
           E == Evaluated(S, r, "address") IN
       IF ~r.defined THEN Fail(E) ELSE assembler_set_pc(E, r.value % 65536)

assemble_skip_directive(S, args) ==
  IF Len(args) < 1 THEN Fail(S)
  ELSE LET r == expr_eval(args[1], S)
           E == Evaluated(S, r, "count") IN
       IF ~r.defined THEN Fail(E)
       ELSE IF r.value < 0 \/ r.value > 65536 THEN Fail(E)
       ELSE [assembler_advance_pc(E, r.value) EXCEPT !.block_skipped = @ + r.value]

\* a !pseudopc that opens a block inside a block
assembler_pseudopc_start_nested(S, pseudo_addr) ==
  [S EXCEPT !.real_pc = S.pc, !.in_pseudopc = TRUE, !.pc = pseudo_addr,
            !.block_trace = <<>>, !.block_skipped = 0]

assembler_pseudopc_start(S, pseudo_addr) ==
  IF S.in_pseudopc THEN Fail(S)
  ELSE [S EXCEPT !.real_pc = S.pc, !.in_pseudopc = TRUE, !.pc = pseudo_addr,
                 !.block_trace = <<>>, !.block_skipped = 0]

\* a !realpc that leaves the virtual PC in place
assembler_pseudopc_end_keep(S) ==
  IF ~S.in_pseudopc THEN Fail(S)
  ELSE [S EXCEPT !.in_pseudopc = FALSE]

assembler_pseudopc_end(S) ==
  IF ~S.in_pseudopc THEN Fail(S)
  ELSE [S EXCEPT !.pc = S.real_pc, !.in_pseudopc = FALSE]

\* the value a symbol holds, for observation
SymbolValue(table, name) ==
  IF name \in DOMAIN table /\ table[name].defined
  THEN [defined |-> TRUE, value |-> table[name].value]
  ELSE [defined |-> FALSE, value |-> 0]

\* observation: S.iterations holds one record for each !for directive met
\* with a variable and defined bounds; values are the values its body was
\* executed for, held what the variable held as each execution started,
\* after what it held when the loop was over, done that the loop was not
\* broken off, constant that the variable was a constant before the loop
LoopRecord(S, var_name, start, end, handled) ==
  [S EXCEPT !.iterations = Append(@, [var |-> var_name, start |-> start, end |-> end,
                                      depth |-> S.loop_depth, macro_depth |-> S.macro_depth,
                                      handled |-> handled,
                                      constant |-> var_name \in DOMAIN S.symbols
                                                   /\ S.symbols[var_name].constant,
                                      values |-> <<>>, held |-> <<>>,
                                      after |-> SymbolValue(S.symbols, var_name),
                                      done |-> FALSE])]

\* observation: S.whiles holds one record for each !while directive met
\* with a condition; tests are the results of the evaluations of its
\* condition, runs counts the executions of its body, capped tells that the
\* loop ended on its limit of iterations.  S.ignored is the stack of the
\* loop directives that reached the directive handler and have not met
\* their !end: 0 for a !for, the index of its record for a !while
WhileRecord(S, handled) ==
  [S EXCEPT !.whiles = Append(@, [depth |-> S.loop_depth, macro_depth |-> S.macro_depth,
                                  handled |-> handled,
                                  tests |-> <<>>, runs |-> 0, capped |-> FALSE])]

\* the !end of a loop line the directive handler ignored: the lines
\* between the two have been assembled once, as they stand
IgnoredEnd(S) ==
  IF S.ignored = <<>> THEN S
  ELSE IF S.ignored[Len(S.ignored)] = 0
  THEN [S EXCEPT !.ignored = SubSeq(@, 1, Len(@) - 1)]
  ELSE [S EXCEPT !.ignored = SubSeq(@, 1, Len(@) - 1),
                 !.whiles[S.ignored[Len(S.ignored)]].runs = @ + 1]

IgnoredFor(S) ==
  IF Len(S.stmt.args) >= 3 /\ S.stmt.args[1].type = "symbol"
     /\ expr_eval(S.stmt.args[2], S).defined /\ expr_eval(S.stmt.args[3], S).defined
  THEN LoopRecord(S, S.stmt.args[1].symbol, expr_eval(S.stmt.args[2], S).value,
                  expr_eval(S.stmt.args[3], S).value, FALSE)
  ELSE S

IgnoredWhile(S) ==
  IF Len(S.stmt.args) >= 1
  THEN [WhileRecord(S, FALSE) EXCEPT !.ignored = Append(@, Len(S.whiles) + 1)]
  ELSE [S EXCEPT !.ignored = Append(@, 0)]

\* a !for, !while or !end line that reaches the directive handler is no
\* loop: the handler does nothing, and the lines after it are assembled as
\* they stand
IgnoredLoop(S) ==
  IF S.pass # 1 THEN S
  ELSE IF S.stmt.name = "for" THEN [IgnoredFor(S) EXCEPT !.ignored = Append(@, 0)]
  ELSE IF S.stmt.name = "while" THEN IgnoredWhile(S)
  ELSE IgnoredEnd(S)

\* !zone: the zone named, or a generated one; anon_zone_counter is a
\* static variable of the handler
assemble_zone_directive(S, args) ==
  IF Len(args) >= 1 /\ args[1].type = "symbol"
  THEN [S EXCEPT !.current_zone = args[1].symbol]
  ELSE [S EXCEPT !.anon_zone_counter = @ + 1,
                 !.current_zone = "_zone_" \o ToString(S.anon_zone_counter + 1)]

\* assembler_set_cpu; the name is compared without regard to case
assembler_set_cpu(S, cpu_name) ==
  CASE cpu_name = "6502" -> [S EXCEPT !.cpu_type = "CPU_6502"]
    [] cpu_name = "6510" -> [S EXCEPT !.cpu_type = "CPU_6510"]
    [] cpu_name \in {"65c02", "65C02"} -> [S EXCEPT !.cpu_type = "CPU_65C02"]
    [] OTHER -> Fail(S)

\* assembler_opcode_valid_for_cpu; no statement handler calls it
assembler_opcode_valid_for_cpu(S, opcode) ==
  /\ opcode_find_by_opcode(opcode) # {}
  /\ \/ S.cpu_type = "CPU_6510"
     \/ \A e \in opcode_find_by_opcode(opcode) : ~opcode_is_illegal(e.mnemonic)

\* !cpu: the name is the string argument, a symbol or a number in decimal
assemble_cpu_directive(S, args) ==
  IF Len(args) < 1 \/ args[1].type \notin {"string", "symbol", "number"} THEN Fail(S)
  ELSE assembler_set_cpu(S, IF args[1].type = "number" THEN ToString(args[1].number)
                            ELSE args[1].symbol)

assembler_assemble_directive(S) ==
  LET name == S.stmt.name
      args == S.stmt.args IN
  CASE name = "byte" -> assemble_byte_directive(S, args)
    [] name = "word" -> assemble_word_directive(S, args)
    [] name = "org" -> assemble_org_directive(S, args)
    [] name = "skip" -> assemble_skip_directive(S, args)
    [] name \in {"for", "while", "end"} -> IgnoredLoop(S)
    [] name \in {"source", "src", "include", "macro", "endmacro", "endm"} -> S
    [] name = "pseudopc" ->
         IF Len(args) < 1 THEN Fail(S)
         ELSE LET r == expr_eval(args[1], S)
                  E == Evaluated(S, r, "address") IN
              IF ~r.defined THEN Fail(E) ELSE assembler_pseudopc_start(E, r.value % 65536)
    [] name = "realpc" -> assembler_pseudopc_end(S)
    [] name \in {"zone", "zn"} -> assemble_zone_directive(S, args)
    [] name = "cpu" -> assemble_cpu_directive(S, args)
    [] name = "error" -> Fail(S)
    [] OTHER -> assembler_warning(S)

assembler_in_loop(S) == S.loop_depth > 0

assemble_assignment(S) ==
  LET r == expr_eval(S.stmt.operand, S)
      E == Evaluated(S, r, "assignment")
      base == IF S.pass = 2 \/ assembler_in_loop(S) THEN SYM_DEFINED_FORCE_UPDATE ELSE SYM_CONSTANT
      flags == IF r.defined /\ assembler_is_zeropage(r.value) THEN WithZeropage(base) ELSE base
      d == symbol_define(S.symbols, S.stmt.name, r.value, flags)
  IN [E EXCEPT !.symbols = d.table,
               !.refused = @ \/ (~d.ok /\ ~assembler_in_loop(S))]

assembler_assemble_statement(S) ==
  LET stmt == S.stmt
      S0 == [S EXCEPT !.current_line = stmt.line]
      L == IF stmt.label.kind = "none" THEN S0
           ELSE IF S.pass = 1 THEN define_label(S0, stmt.label)
           ELSE IF stmt.label.kind = "global" THEN [S0 EXCEPT !.current_zone = stmt.label.name]
           ELSE S0
  IN CASE stmt.type \in {"EMPTY", "LABEL"} -> L
       [] stmt.type = "INSTRUCTION" -> assembler_assemble_instruction(L)
       [] stmt.type = "DIRECTIVE" -> assembler_assemble_directive(L)
       [] stmt.type = "ASSIGNMENT" -> assemble_assignment(L)
       [] OTHER -> Fail(L)

(***************************************************************************)
(* Conditional assembly (assembler.c).  An entry of cond_stack also keeps  *)
(* the condition its !if was given, for observation.                       *)
(***************************************************************************)
\* a test that consults the outermost conditional
assembler_is_active_outermost(S) ==
  IF Len(S.cond_stack) = 0 THEN TRUE ELSE S.cond_stack[1].active

assembler_is_active(S) ==
  IF Len(S.cond_stack) = 0 THEN TRUE ELSE S.cond_stack[Len(S.cond_stack)].active

\* the entry !if pushes
CondEntry(S, condition) ==
  [parent_active |-> assembler_is_active(S),
   active |-> assembler_is_active(S) /\ condition,
   else_seen |-> FALSE,
   condition |-> condition]

\* an !if that pushes whatever the depth
assembler_cond_if_unchecked(S, condition) ==
  Pushed([S EXCEPT !.cond_stack = Append(@, CondEntry(S, condition))],
         "cond", Len(S.cond_stack) + 1)

assembler_cond_if(S, condition) ==
  IF Len(S.cond_stack) >= ASM_MAX_COND_DEPTH THEN Fail(S)
  ELSE Pushed([S EXCEPT !.cond_stack = Append(@, CondEntry(S, condition))],
              "cond", Len(S.cond_stack) + 1)

assembler_cond_ifdef(S, symbol_name) ==
  assembler_cond_if(S, symbol_lookup(S.symbols, symbol_name) /\ S.symbols[symbol_name].defined)

assembler_cond_ifndef(S, symbol_name) ==
  assembler_cond_if(S, ~(symbol_lookup(S.symbols, symbol_name) /\ S.symbols[symbol_name].defined))

\* an !else that inverts the branch whatever the parent
assembler_cond_else_always(S) ==
  LET depth == Len(S.cond_stack) IN
  IF depth = 0 THEN Fail(S)
  ELSE LET entry == S.cond_stack[depth] IN
       IF entry.else_seen THEN Fail(S)
       ELSE [S EXCEPT !.cond_stack[depth] =
               [entry EXCEPT !.else_seen = TRUE, !.active = ~entry.active]]

assembler_cond_else(S) ==
  LET depth == Len(S.cond_stack) IN
  IF depth = 0 THEN Fail(S)
  ELSE LET entry == S.cond_stack[depth] IN
       IF entry.else_seen THEN Fail(S)
       ELSE [S EXCEPT !.cond_stack[depth] =
               [entry EXCEPT !.else_seen = TRUE,
                             !.active = IF entry.parent_active THEN ~entry.active
                                        ELSE entry.active]]

assembler_cond_endif(S) ==
  IF Len(S.cond_stack) = 0 THEN Fail(S)
  ELSE [S EXCEPT !.cond_stack = SubSeq(@, 1, Len(@) - 1)]

is_conditional_directive(stmt) ==
  stmt.type = "DIRECTIVE" /\ stmt.name \in {"if", "else", "endif", "ifdef", "ifndef"}

is_source_directive(stmt) ==
  stmt.type = "DIRECTIVE" /\ stmt.name \in {"source", "src", "include"}

is_loop_directive(stmt) ==
  stmt.type = "DIRECTIVE" /\ stmt.name \in {"for", "while"}

process_conditional_directive(S) ==
  LET name == S.stmt.name
      args == S.stmt.args IN
  CASE name = "if" ->
         IF Len(args) < 1 THEN Fail(S)
         ELSE LET r == expr_eval(args[1], S) IN
              assembler_cond_if(Evaluated(S, r, "condition"), r.defined /\ r.value # 0)
    [] name = "ifdef" ->
         IF Len(args) < 1 \/ args[1].type # "symbol" THEN Fail(S)
         ELSE assembler_cond_ifdef(S, args[1].symbol)
    [] name = "ifndef" ->
         IF Len(args) < 1 \/ args[1].type # "symbol" THEN Fail(S)
         ELSE assembler_cond_ifndef(S, args[1].symbol)
    [] name = "else" -> assembler_cond_else(S)
    [] OTHER -> assembler_cond_endif(S)

(***************************************************************************)
(* Line storage and the two passes (assembler.c).                          *)
(***************************************************************************)
add_assembled_line(S, address) ==
  [S EXCEPT !.lines = Append(@, [stmt |-> S.stmt, address |-> address,
                                 zone |-> S.current_zone,
                                 byte_count |-> 0, bytes |-> <<>>,
                                 committed |-> 0,
                                 expansion |-> IF S.macro_stack = <<>> THEN 0
                                               ELSE S.macro_stack[Len(S.macro_stack)]])]

\* the statement is parsed: the current line is set; observation: S.late
\* counts the statements read, short of the empty one at the end of a text,
\* when the error count had reached the limit
Pass1Enter(S0, stmt) ==
  [S0 EXCEPT !.current_line = stmt.line, !.stmt = stmt, !.failed = FALSE, !.trace = <<>>,
             !.late = IF S0.errors >= ASM_MAX_ERRORS /\ stmt.type # "EMPTY" THEN @ + 1 ELSE @]

\* the stored line takes the statement as assembled; observation: the
\* advance of the PC, the size pass 1 commits
Pass1Store(A, line_pc) ==
  [A EXCEPT !.lines[Len(A.lines)].stmt = A.stmt,
            !.lines[Len(A.lines)].committed = Mod16(A.pc - line_pc),
            !.halted = A.errors >= ASM_MAX_ERRORS]

(***************************************************************************)
(* Text substitution and block structure.  A loop variable or a macro      *)
(* parameter is replaced in the text of a body wherever it stands as a     *)
(* word; sub maps each replaced name to the expression that replaces it.   *)
(* A label or an assignment target replaced by anything but a name leaves  *)
(* a line the parser reports as an error statement.                        *)
(***************************************************************************)
SubstituteExpr(e, sub) ==
  IF e.type = "symbol" /\ ~e.local /\ e.symbol \in DOMAIN sub THEN sub[e.symbol] ELSE e

SubstituteName(n, sub) ==
  IF n \in DOMAIN sub /\ sub[n].type = "symbol" THEN sub[n].symbol ELSE n

Unparsable(stmt, sub) ==
  \/ stmt.type = "ASSIGNMENT" /\ stmt.name \in DOMAIN sub /\ sub[stmt.name].type # "symbol"
  \/ stmt.label.kind = "global" /\ stmt.label.name \in DOMAIN sub
     /\ sub[stmt.label.name].type # "symbol"

RECURSIVE SubstituteLines(_, _)
SubstituteStatement(stmt, sub) ==
  IF Unparsable(stmt, sub) THEN [stmt EXCEPT !.type = "ERROR"]
  ELSE [stmt EXCEPT !.operand = SubstituteExpr(@, sub),
                    !.args = [i \in DOMAIN @ |-> SubstituteExpr(@[i], sub)],
                    !.name = IF stmt.type = "ASSIGNMENT" THEN SubstituteName(@, sub) ELSE @,
                    !.label.name = IF stmt.label.kind = "global"
                                   THEN SubstituteName(@, sub) ELSE @,
                    !.body = SubstituteLines(@, sub)]

SubstituteLines(body, sub) == [i \in DOMAIN body |-> SubstituteStatement(body[i], sub)]

\* substitute_loop_var: the variable becomes the decimal text of value
substitute_loop_var(body, var_name, value) ==
  SubstituteLines(body, var_name :> Num(value))

\* macro_substitute: each parameter becomes the text of its argument
macro_substitute(body, params, args) ==
  SubstituteLines(body, [n \in {params[i] : i \in DOMAIN params} |->
                           args[CHOOSE i \in DOMAIN params :
                                  params[i] = n /\ \A j \in 1..(i - 1) : params[j] # n]])

\* the directive that closes a block
Closing(stmt) ==
  Directive(NoLabel, IF stmt.name = "macro" THEN "endmacro" ELSE "end", <<>>)

\* the lines of a body as a reader meets them that recognises only the
\* blocks named in kept: any other block is its directive, its lines and
\* its closing directive, one after the other, and a !source line is the
\* directive alone
RECURSIVE Unfold(_, _)
UnfoldOne(stmt, kept) ==
  IF stmt.type # "DIRECTIVE" \/ stmt.name \in kept THEN <<stmt>>
  ELSE IF stmt.name \in {"for", "while", "macro"}
  THEN <<[stmt EXCEPT !.body = <<>>]>> \o Unfold(stmt.body, kept) \o <<Closing(stmt)>>
  ELSE <<[stmt EXCEPT !.body = <<>>]>>

Unfold(body, kept) ==
  IF body = <<>> THEN <<>> ELSE UnfoldOne(Head(body), kept) \o Unfold(Tail(body), kept)

(***************************************************************************)
(* Macros, loops and included files (assembler.c).  Lines reads the lines  *)
(* of one text: the main source or an included file (kind "main"), a loop  *)
(* body (kind "loop") or a macro body (kind "macro").  S.halted is the     *)
(* break of the reading loop on the error limit; the loop that broke is    *)
(* the innermost one, so the caller clears it on return.                   *)
(***************************************************************************)
is_macro_directive(stmt) == stmt.type = "DIRECTIVE" /\ stmt.name = "macro"

\* macro_define: a second definition of a name is an error
macro_define(S, name, params, body) ==
  IF name \in DOMAIN S.macros THEN Fail(S)
  ELSE [S EXCEPT !.macros = (name :> [params |-> params, body |-> body]) @@ @]

\* the parameter names: the symbol arguments after the name
MacroParams(args) ==
  [i \in 1..(Len(args) - 1) |-> args[i + 1].symbol]

process_macro_directive(S) ==
  IF Len(S.stmt.args) < 1 \/ S.stmt.args[1].type # "symbol" THEN Fail(S)
  ELSE macro_define(S, S.stmt.args[1].symbol, MacroParams(S.stmt.args),
                    Unfold(S.stmt.body, {}))

RECURSIVE Lines(_, _, _, _), macro_expand(_), process_loop_directive(_), assembler_include_file(_)

\* a block met while assembly is inactive is not collected: its lines and
\* its closing directive are read as lines of the enclosing text
SkippedBlock(S, kind) ==
  IF S.stmt.body = <<>> \/ is_source_directive(S.stmt) THEN S
  ELSE Lines(S, S.stmt.body \o <<Closing(S.stmt)>>, 1, kind)

LineDispatch(S, line_pc, kind) ==
  IF is_conditional_directive(S.stmt) THEN process_conditional_directive(S)
  ELSE IF ~assembler_is_active(S) THEN SkippedBlock(S, kind)
  ELSE IF kind = "main" /\ is_source_directive(S.stmt) THEN assembler_include_file(S)
  ELSE IF kind = "main" /\ is_macro_directive(S.stmt) THEN process_macro_directive(S)
  ELSE IF kind # "macro" /\ is_loop_directive(S.stmt) THEN process_loop_directive(S)
  ELSE IF S.stmt.type = "MACRO_CALL" THEN macro_expand(S)
  ELSE Pass1Store(assembler_assemble_statement(add_assembled_line(S, line_pc)), line_pc)

Lines(S, text, i, kind) ==
  IF i > Len(text) \/ S.halted THEN S
  ELSE Lines(LineDispatch(Pass1Enter(S, parser_parse_line(text[i], S, i)), S.pc, kind),
             text, i + 1, kind)

\* an expansion that installs the same zone every time
MacroEnter_same_zone(S) ==
  [S EXCEPT !.macro_unique_counter = @ + 1, !.macro_depth = @ + 1,
            !.macro_stack = Append(@, S.macro_unique_counter + 1),
            !.peak = Pushed(S, "macro", S.macro_depth + 1).peak,
            !.current_zone = "_macro_"]

\* the expansion context is pushed and the zone of the expansion installed
MacroEnter(S) ==
  [S EXCEPT !.macro_unique_counter = @ + 1, !.macro_depth = @ + 1,
            !.macro_stack = Append(@, S.macro_unique_counter + 1),
            !.peak = Pushed(S, "macro", S.macro_depth + 1).peak,
            !.current_zone = "_macro_" \o ToString(S.macro_unique_counter + 1)]

\* line and zone are restored and the context popped
MacroRestore_keep_zone(S, B) ==
  [B EXCEPT !.current_line = S.current_line,
            !.macro_depth = @ - 1, !.macro_stack = SubSeq(@, 1, Len(@) - 1),
            !.halted = FALSE]

MacroRestore(S, B) ==
  [B EXCEPT !.current_line = S.current_line, !.current_zone = S.current_zone,
            !.macro_depth = @ - 1, !.macro_stack = SubSeq(@, 1, Len(@) - 1),
            !.halted = FALSE]

\* observation: one record for each call of macro_expand, with the zone
\* before the call, the zone its body started under and the zone on return
Expanded(S, id, entered, R) ==
  [R EXCEPT !.expansions = Append(@, [id |-> id, depth |-> S.macro_depth,
                                      before |-> S.current_zone,
                                      entered |-> entered,
                                      after |-> R.current_zone])]

MacroBody(S) ==
  macro_substitute(S.macros[S.stmt.name].body, S.macros[S.stmt.name].params, S.stmt.args)

macro_expand(S) ==
  IF S.stmt.name \notin DOMAIN S.macros THEN Expanded(S, 0, NullZone, Fail(S))
  ELSE IF Len(S.stmt.args) # Len(S.macros[S.stmt.name].params)
  THEN Expanded(S, 0, NullZone, Fail(S))
  ELSE IF S.macro_depth >= ASM_MAX_MACRO_DEPTH THEN Expanded(S, 0, NullZone, Fail(S))
  ELSE Expanded(S, S.macro_unique_counter + 1, MacroEnter(S).current_zone,
                MacroRestore(S, Lines(MacroEnter(S), MacroBody(S), 1, "macro")))

\* execute_loop_body between the push and the pop of the loop entry
execute_loop_body(S, body) ==
  [Lines(S, Unfold(body, {"for", "while"}), 1, "loop")
     EXCEPT !.current_line = S.current_line, !.halted = FALSE]

LoopIteration(S, k, var_name, i) ==
  [S EXCEPT !.symbols = symbol_define(@, var_name, i, SYM_DEFINED).table,
            !.loop_depth = @ + 1,
            !.peak = Pushed(S, "loop", S.loop_depth + 1).peak,
            !.iterations[k].values = Append(@, i),
            !.iterations[k].held =
               Append(@, SymbolValue(symbol_define(S.symbols, var_name, i, SYM_DEFINED).table,
                                     var_name))]

LoopOver(S, k, var_name, done) ==
  [S EXCEPT !.iterations[k].after = SymbolValue(S.symbols, var_name),
            !.iterations[k].done = done]

RECURSIVE ForIterations(_, _, _, _, _, _, _)
ForNext(R, k, var_name, i, end, step, body) ==
  IF R.errors >= ASM_MAX_ERRORS
  THEN LoopOver([R EXCEPT !.loop_depth = @ - 1], k, var_name, FALSE)
  ELSE ForIterations([R EXCEPT !.loop_depth = @ - 1], k, var_name, i + step, end, step, body)

\* the counter of the loops expanded here stays within int32_t; the loop at
\* the limits of the type is followed turn by turn (ForTurn)
ForIterations(S, k, var_name, i, end, step, body) ==
  IF (step > 0 /\ i > end) \/ (step < 0 /\ i < end) THEN LoopOver(S, k, var_name, TRUE)
  ELSE ForNext(execute_loop_body(LoopIteration(S, k, var_name, i),
                                 substitute_loop_var(body, var_name, i)),
               k, var_name, i, end, step, body)

assembler_loop_for(S, var_name, start, end, body) ==
  IF S.loop_depth >= ASM_MAX_LOOP_DEPTH THEN Fail(S)
  ELSE ForIterations(LoopRecord(S, var_name, start, end, TRUE), Len(S.iterations) + 1,
                     var_name, start, end, IF start <= end THEN 1 ELSE -1, body)

\* observation: the condition of loop k has been evaluated to r, and the
\* body is executed if ran = 1
WhileTested(S, k, r, ran) ==
  [S EXCEPT !.whiles[k].tests = Append(@, [defined |-> r.defined, value |-> r.value]),
            !.whiles[k].runs = @ + ran]

RECURSIVE WhileIterations(_, _, _, _, _)
WhileNext(R, k, condition, body, iterations) ==
  IF R.errors >= ASM_MAX_ERRORS /\ iterations < WhileMaxIterations THEN R
  ELSE WhileIterations(R, k, condition, body, iterations)

WhileIterations(S, k, condition, body, iterations) ==
  IF iterations >= WhileMaxIterations
  THEN [assembler_error(S) EXCEPT !.whiles[k].capped = TRUE]
  ELSE IF ~expr_eval(condition, S).defined
  THEN assembler_error(WhileTested(S, k, expr_eval(condition, S), 0))
  ELSE IF expr_eval(condition, S).value = 0
  THEN WhileTested(S, k, expr_eval(condition, S), 0)
  ELSE WhileNext(execute_loop_body(WhileTested(S, k, expr_eval(condition, S), 1), body),
                 k, condition, body, iterations + 1)

assembler_loop_while(S, condition, body) ==
  IF S.loop_depth >= ASM_MAX_LOOP_DEPTH THEN Fail(S)
  ELSE [WhileIterations([WhileRecord(S, TRUE) EXCEPT
                           !.loop_depth = @ + 1,
                           !.peak = Pushed(S, "loop", S.loop_depth + 1).peak],
                        Len(S.whiles) + 1, condition, body, 0)
          EXCEPT !.loop_depth = @ - 1]

process_loop_directive(S) ==
  IF S.stmt.name = "for"
  THEN IF Len(S.stmt.args) < 3 THEN Fail(S)
       ELSE IF S.stmt.args[1].type # "symbol" THEN Fail(S)
       ELSE IF ~expr_eval(S.stmt.args[2], S).defined \/ ~expr_eval(S.stmt.args[3], S).defined
       THEN Fail(S)
       ELSE assembler_loop_for(S, S.stmt.args[1].symbol, expr_eval(S.stmt.args[2], S).value,
                               expr_eval(S.stmt.args[3], S).value, S.stmt.body)
  ELSE IF Len(S.stmt.args) < 1 THEN Fail(S)
  ELSE assembler_loop_while(S, S.stmt.args[1], S.stmt.body)

Pass1Dispatch(S, line_pc) == LineDispatch(S, line_pc, "main")

\* one turn of the loop of assembler_pass1_internal on source line src
Pass1Body(S0, src, line) ==
  Pass1Dispatch(Pass1Enter(S0, parser_parse_line(src, S0, line)), S0.pc)

\* the last turn, on the empty statement at end of file, unless the loop
\* stopped on the error limit
Pass1Eof(S, line) == IF S.halted THEN S ELSE Pass1Body(S, Empty, line)

\* the pass returns without the check
UnclosedCheck_none(S) == S

\* the check for an unclosed conditional after the loop
UnclosedCheck(S) == IF Len(S.cond_stack) > 0 THEN assembler_error(S) ELSE S

\* assembler_pass1_internal on the lines of one text
assembler_pass1_internal(S, text) ==
  UnclosedCheck(Pass1Eof(Lines([S EXCEPT !.pass = 1], text, 1, "main"), Len(text) + 1))

\* the name of a file that no include path holds
NoFile == "nofile.asm"

\* an include that reads an empty file
assembler_include_file_empty(S) ==
  IF Len(S.stmt.args) < 1 THEN Fail(S)
  ELSE IF S.include_depth >= ASM_MAX_INCLUDE_DEPTH THEN Fail(S)
  ELSE IF S.stmt.args[1].symbol = NoFile THEN Fail(S)
  ELSE [assembler_pass1_internal(Pushed([S EXCEPT !.include_depth = @ + 1],
                                        "include", S.include_depth + 1), <<>>)
          EXCEPT !.include_depth = @ - 1, !.halted = FALSE]

\* the !source line of the reading loop and assembler_include_file; the
\* body of the statement is the content of the file
assembler_include_file(S) ==
  IF Len(S.stmt.args) < 1 THEN Fail(S)
  ELSE IF S.include_depth >= ASM_MAX_INCLUDE_DEPTH THEN Fail(S)
  ELSE IF S.stmt.args[1].symbol = NoFile THEN Fail(S)
  ELSE [assembler_pass1_internal(Pushed([S EXCEPT !.include_depth = @ + 1],
                                        "include", S.include_depth + 1), S.stmt.body)
          EXCEPT !.include_depth = @ - 1, !.halted = FALSE]

\* a prelude that starts pass 2 on an empty symbol table
Pass2Prelude_fresh(S) ==
  [S EXCEPT !.pass = 2, !.pc = S.org, !.real_pc = S.org, !.in_pseudopc = FALSE,
            !.current_zone = NullZone, !.macro_unique_counter = 0,
            !.forward_index = 0, !.backward = <<>>,
            !.halted = FALSE, !.symbols = <<>>]

\* a prelude that clears the whole tracker, as anon_clear does
Pass2Prelude_clear_anon(S) ==
  [S EXCEPT !.pass = 2, !.pc = S.org, !.real_pc = S.org, !.in_pseudopc = FALSE,
            !.current_zone = NullZone, !.macro_unique_counter = 0,
            !.forward = <<>>, !.forward_index = 0, !.backward = <<>>,
            !.halted = FALSE]

\* the prelude of assembler_pass2, with anon_reset_pass
Pass2Prelude(S) ==
  [S EXCEPT !.pass = 2, !.pc = S.org, !.real_pc = S.org, !.in_pseudopc = FALSE,
            !.current_zone = NullZone, !.macro_unique_counter = 0,
            !.forward_index = 0, !.backward = <<>>,
            !.halted = FALSE]

\* the count is stored whatever its size
ListingCount_uncapped(byte_count, old) ==
  IF byte_count > 0 THEN byte_count ELSE old

\* the listing bytes of a line: at most eight, read back from memory
ListingCount(byte_count, old) ==
  IF byte_count > 0 /\ byte_count <= 8 THEN byte_count
  ELSE IF byte_count > 8 THEN 8 ELSE old

\* the line is entered: PC and zone restored from it
Pass2Enter(S0, line) ==
  [S0 EXCEPT !.current_line = line.stmt.line, !.pc = line.address,
             !.current_zone = line.zone, !.stmt = line.stmt,
             !.failed = FALSE, !.trace = <<>>,
             !.late = IF S0.errors >= ASM_MAX_ERRORS /\ line.stmt.type # "EMPTY"
                      THEN @ + 1 ELSE @]

\* the re-definition of the line's anonymous label
Pass2Redefine(S) ==
  CASE S.stmt.label.kind = "anon_fwd" -> [S EXCEPT !.forward = Append(@, S.pc)]
    [] S.stmt.label.kind = "anon_back" -> [S EXCEPT !.backward = Append(@, S.pc)]
    [] OTHER -> S

OutputPC(S) == IF S.in_pseudopc THEN S.real_pc ELSE S.pc

\* the listing bytes captured after the statement
Pass2Capture(A, i, start_pc, byte_count) ==
  [A EXCEPT !.lines[i].stmt = A.stmt,
            !.lines[i].byte_count = ListingCount(byte_count, @),
            !.lines[i].bytes =
               IF byte_count > 0
               THEN [j \in 1..ListingCount(byte_count, 0) |->
                       MemAt(A.memory, Mod16(start_pc + j - 1))]
               ELSE @,
            !.halted = A.errors >= ASM_MAX_ERRORS]

Pass2Store(A, i, start_pc) == Pass2Capture(A, i, start_pc, OutputPC(A) - start_pc)

Pass2Run(S, i) ==
  Pass2Store(assembler_assemble_statement(Pass2Redefine(S)), i, OutputPC(S))

\* one turn of the loop of assembler_pass2 on stored line i
Pass2Body(S0, i) == Pass2Run(Pass2Enter(S0, S0.lines[i]), i)

(***************************************************************************)
(* State.  as is the Assembler; phase is the position of                   *)
(* assembler_assemble_string; line_no counts the source lines read; index  *)
(* is the loop variable of pass 2; pass1_symbols is the symbol table as    *)
(* pass 1 left it; source is the text pass 1 has read.                     *)
(***************************************************************************)
VARIABLES as, phase, line_no, index, pass1_symbols, source

vars == <<as, phase, line_no, index, pass1_symbols, source>>

\* assembler_create: the fields assembler_reset leaves alone
assembler_create ==
  [macros |-> <<>>, cpu_type |-> "CPU_6510", macro_depth |-> 0, macro_stack |-> <<>>, macro_unique_counter |-> 0,
   loop_depth |-> 0, anon_zone_counter |-> 0,
   \* observation: the assemblies the object has started
   runs |-> 0]

\* assembler_reset on the object A, with the command-line defines
\* re-applied: the macro table, the expansion counter and the macro and
\* loop depths are not among the fields it resets
assembler_reset(A, defines) ==
  [pass |-> 1, pc |-> ASM_DEFAULT_ORG, real_pc |-> ASM_DEFAULT_ORG, org |-> ASM_DEFAULT_ORG,
   in_pseudopc |-> FALSE, memory |-> <<>>, lowest_addr |-> 65535, highest_addr |-> 0,
   symbols |-> [n \in defines |-> [value |-> 1, defined |-> TRUE,
                                   zeropage |-> FALSE, constant |-> TRUE]],
   forward |-> <<>>, forward_index |-> 0, backward |-> <<>>,
   current_zone |-> NullZone, cond_stack |-> <<>>, lines |-> <<>>,
   errors |-> 0, warnings |-> 0, current_line |-> 0, include_depth |-> 0,
   macros |-> A.macros, macro_depth |-> A.macro_depth, macro_stack |-> A.macro_stack,
   macro_unique_counter |-> A.macro_unique_counter, loop_depth |-> A.loop_depth,
   anon_zone_counter |-> A.anon_zone_counter, cpu_type |-> A.cpu_type, runs |-> A.runs + 1,
   stmt |-> Empty, halted |-> FALSE,
   \* observation
   failed |-> FALSE, trace |-> <<>>, block_trace |-> <<>>, block_skipped |-> 0,
   result |-> [value |-> 0, defined |-> FALSE, role |-> "none"],
   undefined |-> FALSE, refused |-> FALSE,
   iterations |-> <<>>, whiles |-> <<>>, ignored |-> <<>>, expansions |-> <<>>,
   peak |-> [cond |-> 0, loop |-> 0, macro |-> 0, include |-> 0],
   reported |-> 0, late |-> 0]

\* assembler_pass2 and assembler_assemble_string as functions of the
\* object and the source text
RECURSIVE Pass2Lines(_, _)
Pass2Lines(S, i) ==
  IF i > Len(S.lines) \/ S.halted THEN S ELSE Pass2Lines(Pass2Body(S, i), i + 1)

assembler_pass2(S) == Pass2Lines(Pass2Prelude(S), 1)

Pass2UnlessErrors(S) == IF S.errors > 0 THEN S ELSE assembler_pass2(S)

assembler_assemble_string(A, defines, text) ==
  Pass2UnlessErrors(assembler_pass1_internal(assembler_reset(A, defines), text))

InitWith(defines) ==
  /\ as = assembler_reset(assembler_create, defines)
  /\ phase = "pass1"
  /\ line_no = 0
  /\ index = 0
  /\ pass1_symbols = <<>>
  /\ source = <<>>

\* pass 1 reads one more source line
Pass1Statement(src) ==
  /\ phase = "pass1"
  /\ ~as.halted
  /\ as' = Pass1Body(as, src, line_no + 1)
  /\ line_no' = line_no + 1
  /\ source' = Append(source, src)
  /\ UNCHANGED <<phase, index, pass1_symbols>>

\* assembler_assemble_string after pass 1: return on errors, or pass 2
AfterPass1(S) ==
  /\ pass1_symbols' = S.symbols
  /\ IF S.errors > 0
     THEN as' = S /\ phase' = "done"
     ELSE as' = Pass2Prelude(S) /\ phase' = "pass2"

\* pass 1 reaches the end of the source (or stops on the error limit):
\* the empty statement at end of file, the check for an open conditional,
\* and, in assembler_assemble_string, the return on errors or the start of
\* pass 2
Pass1End ==
  /\ phase = "pass1"
  /\ AfterPass1(UnclosedCheck(Pass1Eof(as, line_no + 1)))
  /\ index' = 1
  /\ UNCHANGED <<line_no, source>>

\* pass 2 replays the next stored line
Pass2Line ==
  /\ phase = "pass2"
  /\ index <= Len(as.lines)
  /\ ~as.halted
  /\ as' = Pass2Body(as, index)
  /\ index' = index + 1
  /\ UNCHANGED <<phase, line_no, pass1_symbols, source>>

\* pass 2 leaves its loop
Pass2End ==
  /\ phase = "pass2"
  /\ index > Len(as.lines) \/ as.halted
  /\ phase' = "done"
  /\ UNCHANGED <<as, line_no, index, pass1_symbols, source>>

\* assembler_assemble_string is called again on the same object: the
\* object is reset and pass 1 starts on a new source
Reassemble ==
  /\ phase = "done"
  /\ as.runs < MaxRuns
  /\ as' = assembler_reset(as, {})
  /\ phase' = "pass1"
  /\ line_no' = 0
  /\ index' = 0
  /\ pass1_symbols' = <<>>
  /\ source' = <<>>

(***************************************************************************)
(* Sources.  Each specification assembles every source of at most its      *)
(* bound of lines over its own set of statements.                          *)
(***************************************************************************)
\* lda a / a = 5 / a = b / b = 300 / l nop / bne l / !byte a / bne b
Statements ==
  { Instr(NoLabel, "LDA", Plain, Sym("a")),
    Assign("a", Num(5)),
    Assign("a", Sym("b")),
    Assign("b", Num(300)),
    Instr(GlobalLabel("l"), "NOP", Plain, NoExpr),
    Instr(NoLabel, "BNE", Plain, Sym("l")),
    Directive(NoLabel, "byte", <<Sym("a")>>),
    Instr(NoLabel, "BNE", Plain, Sym("b")) }

\* the names -D may define
Defines == {"a"}

\* bne + / bne ++ / + nop / nop / - nop / bne - / bne -- / - bne -
AnonStatements ==
  { Instr(NoLabel, "BNE", Plain, AnonFwdRef(1)),
    Instr(NoLabel, "BNE", Plain, AnonFwdRef(2)),
    Instr(AnonFwdLabel, "NOP", Plain, NoExpr),
    Instr(NoLabel, "NOP", Plain, NoExpr),
    Instr(AnonBackLabel, "NOP", Plain, NoExpr),
    Instr(NoLabel, "BNE", Plain, AnonBackRef(1)),
    Instr(NoLabel, "BNE", Plain, AnonBackRef(2)),
    Instr(AnonBackLabel, "BNE", Plain, AnonBackRef(1)) }

\* !if 1 / !if 0 / !ifdef a / !ifndef a / !else / !endif / a = 5 / l nop / !byte 1 /
\* +m / !source / !while
CondStatements ==
  { Directive(NoLabel, "if", <<Num(1)>>),
    Directive(NoLabel, "if", <<Num(0)>>),
    Directive(NoLabel, "ifdef", <<Sym("a")>>),
    Directive(NoLabel, "ifndef", <<Sym("a")>>),
    Directive(NoLabel, "else", <<>>),
    Directive(NoLabel, "endif", <<>>),
    Assign("a", Num(5)),
    Instr(GlobalLabel("l"), "NOP", Plain, NoExpr),
    Directive(NoLabel, "byte", <<Num(1)>>),
    Statement(NoLabel, "MACRO_CALL", "m", Plain, NoExpr, <<>>),
    Directive(NoLabel, "source", <<>>),
    Directive(NoLabel, "while", <<>>) }

\* !pseudopc $c000 / !realpc / l nop / !skip 2 / !word l / lda u / * = $1000
PseudoStatements ==
  { Directive(NoLabel, "pseudopc", <<Num(49152)>>),
    Directive(NoLabel, "realpc", <<>>),
    Instr(GlobalLabel("l"), "NOP", Plain, NoExpr),
    Directive(NoLabel, "skip", <<Num(2)>>),
    Directive(NoLabel, "word", <<Sym("l")>>),
    Instr(NoLabel, "LDA", Plain, Sym("u")),
    Directive(NoLabel, "org", <<Num(4096)>>) }

\* l nop / bne l / !skip 125 / !skip 2 / t = $10803 / bne t
BranchStatements ==
  { Instr(GlobalLabel("l"), "NOP", Plain, NoExpr),
    Instr(NoLabel, "BNE", Plain, Sym("l")),
    Directive(NoLabel, "skip", <<Num(125)>>),
    Directive(NoLabel, "skip", <<Num(2)>>),
    Assign("t", Num(67587)),
    Instr(NoLabel, "BNE", Plain, Sym("t")) }

\* * = 0 / * = $ffff / !byte 1 / !word 258 / !skip 2 / !pseudopc $c000 / lda u
OutputStatements ==
  { Directive(NoLabel, "org", <<Num(0)>>),
    Directive(NoLabel, "org", <<Num(65535)>>),
    Directive(NoLabel, "byte", <<Num(1)>>),
    Directive(NoLabel, "word", <<Num(258)>>),
    Directive(NoLabel, "skip", <<Num(2)>>),
    Directive(NoLabel, "pseudopc", <<Num(49152)>>),
    Instr(NoLabel, "LDA", Plain, Sym("u")) }

\* !for i,0,2 { !byte i } / !for i,3,1 { !byte i } /
\* !for j,1,2 { !for i,j,2 { !byte i } } / !macro m { !for i,0,2 { !byte i } } /
\* +m / i = 5 / !byte i
ForUp == Block("for", <<Sym("i"), Num(0), Num(2)>>, <<Directive(NoLabel, "byte", <<Sym("i")>>)>>)

LoopStatements ==
  { ForUp,
    Block("for", <<Sym("i"), Num(3), Num(1)>>, <<Directive(NoLabel, "byte", <<Sym("i")>>)>>),
    Block("for", <<Sym("j"), Num(1), Num(2)>>,
          <<Block("for", <<Sym("i"), Sym("j"), Num(2)>>,
                  <<Directive(NoLabel, "byte", <<Sym("i")>>)>>)>>),
    Block("macro", <<Sym("m")>>, <<ForUp>>),
    MacroCall("m", <<>>),
    Assign("i", Num(5)),
    Directive(NoLabel, "byte", <<Sym("i")>>) }

\* !macro m { bne .l / nop / .l } / +m / !macro g { mylabel nop / bne .l / nop / .l } /
\* +g / !macro outer { +m / bne .l / +m / .l } / +outer / +u / !macro bad { +u / .l } / +bad /
\* z nop / +m 1 / !macro zn { !zone own / bne .l / nop / .l } / +zn
LocalBranch ==
  <<Instr(NoLabel, "BNE", Plain, LocalSym("l")), Instr(NoLabel, "NOP", Plain, NoExpr),
    LabelOnly(LocalLabel("l"))>>

MacroStatements ==
  { Block("macro", <<Sym("m")>>, LocalBranch),
    MacroCall("m", <<>>),
    Block("macro", <<Sym("g")>>,
          <<Instr(GlobalLabel("mylabel"), "NOP", Plain, NoExpr)>> \o LocalBranch),
    MacroCall("g", <<>>),
    Block("macro", <<Sym("outer")>>,
          <<MacroCall("m", <<>>), Instr(NoLabel, "BNE", Plain, LocalSym("l")),
            MacroCall("m", <<>>), LabelOnly(LocalLabel("l"))>>),
    MacroCall("outer", <<>>),
    MacroCall("u", <<>>),
    Block("macro", <<Sym("bad")>>, <<MacroCall("u", <<>>), LabelOnly(LocalLabel("l"))>>),
    MacroCall("bad", <<>>),
    Instr(GlobalLabel("z"), "NOP", Plain, NoExpr),
    MacroCall("m", <<Num(1)>>),
    Block("macro", <<Sym("zn")>>, <<Directive(NoLabel, "zone", <<Sym("own")>>)>> \o LocalBranch),
    MacroCall("zn", <<>>) }

\* l nop / bne l / !byte 1 / !if 0 / !else / !endif / !source "nofile.asm" /
\* !macro m { .l nop } / +m / !for i,0,2 { !byte i }
IncludeStatements ==
  { Instr(GlobalLabel("l"), "NOP", Plain, NoExpr),
    Instr(NoLabel, "BNE", Plain, Sym("l")),
    Directive(NoLabel, "byte", <<Num(1)>>),
    Directive(NoLabel, "if", <<Num(0)>>),
    Directive(NoLabel, "else", <<>>),
    Directive(NoLabel, "endif", <<>>),
    Block("source", <<Sym(NoFile)>>, <<>>),
    Block("macro", <<Sym("m")>>, <<Instr(LocalLabel("l"), "NOP", Plain, NoExpr)>>),
    MacroCall("m", <<>>),
    ForUp }

\* !macro m { nop } / +m / nop / !zone / .l nop
ReuseStatements ==
  { Block("macro", <<Sym("m")>>, <<Instr(NoLabel, "NOP", Plain, NoExpr)>>),
    MacroCall("m", <<>>),
    Instr(NoLabel, "NOP", Plain, NoExpr),
    Directive(NoLabel, "zone", <<>>),
    Instr(LocalLabel("l"), "NOP", Plain, NoExpr) }

\* !warn / !error / !for i,1,10 { !for j,1,10 { !error } } / l nop / +u /
\* !source "nofile.asm" / bne l / !skip 200
ErrorStatements ==
  { Directive(NoLabel, "warn", <<>>),
    Directive(NoLabel, "error", <<>>),
    Block("for", <<Sym("i"), Num(1), Num(10)>>,
          <<Block("for", <<Sym("j"), Num(1), Num(10)>>, <<Directive(NoLabel, "error", <<>>)>>)>>),
    Instr(GlobalLabel("l"), "NOP", Plain, NoExpr),
    MacroCall("u", <<>>),
    Block("source", <<Sym(NoFile)>>, <<>>),
    Instr(NoLabel, "BNE", Plain, Sym("l")),
    Directive(NoLabel, "skip", <<Num(200)>>) }

\* !cpu 6502 / !cpu "65c02" / !cpu 6510 / !cpu "8086" / lax $80 / lda $80 / nop
CpuStatements ==
  { Directive(NoLabel, "cpu", <<Num(6502)>>),
    Directive(NoLabel, "cpu", <<Str("65c02")>>),
    Directive(NoLabel, "cpu", <<Num(6510)>>),
    Directive(NoLabel, "cpu", <<Str("8086")>>),
    Instr(NoLabel, "LAX", Plain, Num(128)),
    Instr(NoLabel, "LDA", Plain, Num(128)),
    Instr(NoLabel, "NOP", Plain, NoExpr) }

\* c = 1 / d = 1 / !while c { !byte 7 / c = d / d = 0 } / !while 0 { !byte 7 } /
\* !while u { !byte 7 } / !macro m { !while 0 { !byte 7 } } / +m
WhileStatements ==
  { Assign("c", Num(1)),
    Assign("d", Num(1)),
    Block("while", <<Sym("c")>>,
          <<Directive(NoLabel, "byte", <<Num(7)>>), Assign("c", Sym("d")), Assign("d", Num(0))>>),
    Block("while", <<Num(0)>>, <<Directive(NoLabel, "byte", <<Num(7)>>)>>),
    Block("while", <<Sym("u")>>, <<Directive(NoLabel, "byte", <<Num(7)>>)>>),
    Block("macro", <<Sym("m")>>,
          <<Block("while", <<Num(0)>>, <<Directive(NoLabel, "byte", <<Num(7)>>)>>)>>),
    MacroCall("m", <<>>) }

\* !for i,1,64 { !if 1 } / !if 1 / !ifdef u / !else / !endif /
\* !for j,1,2 { !for i,1,2 { nop } } / !source a.asm, which holds
\* !macro m { nop } / !macro outer { +m / nop } / +outer /
\* !for j,1,2 { !for i,1,2 { nop } } / !source b.asm, which holds nop
NestedFor ==
  Block("for", <<Sym("j"), Num(1), Num(2)>>,
        <<Block("for", <<Sym("i"), Num(1), Num(2)>>, <<Instr(NoLabel, "NOP", Plain, NoExpr)>>)>>)

StackStatements ==
  { Block("for", <<Sym("i"), Num(1), Num(ASM_MAX_COND_DEPTH)>>,
          <<Directive(NoLabel, "if", <<Num(1)>>)>>),
    Directive(NoLabel, "if", <<Num(1)>>),
    Directive(NoLabel, "ifdef", <<Sym("u")>>),
    Directive(NoLabel, "else", <<>>),
    Directive(NoLabel, "endif", <<>>),
    NestedFor,
    Block("source", <<Sym("a.asm")>>,
          <<Block("macro", <<Sym("m")>>, <<Instr(NoLabel, "NOP", Plain, NoExpr)>>),
            Block("macro", <<Sym("outer")>>,
                  <<MacroCall("m", <<>>), Instr(NoLabel, "NOP", Plain, NoExpr)>>),
            MacroCall("outer", <<>>),
            NestedFor,
            Block("source", <<Sym("b.asm")>>, <<Instr(NoLabel, "NOP", Plain, NoExpr)>>)>>) }

Init == \E defines \in SUBSET Defines : InitWith(defines)

Next ==
  \/ \E src \in Statements : line_no < MaxLines /\ Pass1Statement(src)
  \/ Pass1End
  \/ Pass2Line
  \/ Pass2End

Spec == Init /\ [][Next]_vars

InitAnon == InitWith({})

NextAnon ==
  \/ \E src \in AnonStatements : line_no < MaxAnonLines /\ Pass1Statement(src)
  \/ Pass1End
  \/ Pass2Line
  \/ Pass2End

SpecAnon == InitAnon /\ [][NextAnon]_vars

InitCond == \E defines \in SUBSET Defines : InitWith(defines)

NextCond ==
  \/ \E src \in CondStatements : line_no < MaxCondLines /\ Pass1Statement(src)
  \/ Pass1End
  \/ Pass2Line
  \/ Pass2End

SpecCond == InitCond /\ [][NextCond]_vars

InitPseudo == InitWith({})

NextPseudo ==
  \/ \E src \in PseudoStatements : line_no < MaxPseudoLines /\ Pass1Statement(src)
  \/ Pass1End
  \/ Pass2Line
  \/ Pass2End

SpecPseudo == InitPseudo /\ [][NextPseudo]_vars

InitBranch == InitWith({})

NextBranch ==
  \/ \E src \in BranchStatements : line_no < MaxBranchLines /\ Pass1Statement(src)
  \/ Pass1End
  \/ Pass2Line
  \/ Pass2End

SpecBranch == InitBranch /\ [][NextBranch]_vars

InitOutput == InitWith({})

NextOutput ==
  \/ \E src \in OutputStatements : line_no < MaxOutputLines /\ Pass1Statement(src)
  \/ Pass1End
  \/ Pass2Line
  \/ Pass2End

SpecOutput == InitOutput /\ [][NextOutput]_vars

InitLoop == InitWith({})

NextLoop ==
  \/ \E src \in LoopStatements : line_no < MaxLoopLines /\ Pass1Statement(src)
  \/ Pass1End
  \/ Pass2Line
  \/ Pass2End

SpecLoop == InitLoop /\ [][NextLoop]_vars

InitMacro == InitWith({})

NextMacro ==
  \/ \E src \in MacroStatements : line_no < MaxMacroLines /\ Pass1Statement(src)
  \/ Pass1End
  \/ Pass2Line
  \/ Pass2End

SpecMacro == InitMacro /\ [][NextMacro]_vars

InitInclude == InitWith({})

NextInclude ==
  \/ \E src \in IncludeStatements : line_no < MaxIncludeLines /\ Pass1Statement(src)
  \/ Pass1End
  \/ Pass2Line
  \/ Pass2End

SpecInclude == InitInclude /\ [][NextInclude]_vars

InitReuse == InitWith({})

NextReuse ==
  \/ \E src \in ReuseStatements : line_no < MaxReuseLines /\ Pass1Statement(src)
  \/ Pass1End
  \/ Pass2Line
  \/ Pass2End
  \/ Reassemble

SpecReuse == InitReuse /\ [][NextReuse]_vars

InitErrors == InitWith({})

NextErrors ==
  \/ \E src \in ErrorStatements : line_no < MaxErrorLines /\ Pass1Statement(src)
  \/ Pass1End
  \/ Pass2Line
  \/ Pass2End

SpecErrors == InitErrors /\ [][NextErrors]_vars

InitCpu == InitWith({})

NextCpu ==
  \/ \E src \in CpuStatements : line_no < MaxCpuLines /\ Pass1Statement(src)
  \/ Pass1End
  \/ Pass2Line
  \/ Pass2End

SpecCpu == InitCpu /\ [][NextCpu]_vars

InitWhile == InitWith({})

NextWhile ==
  \/ \E src \in WhileStatements : line_no < MaxWhileLines /\ Pass1Statement(src)
  \/ Pass1End
  \/ Pass2Line
  \/ Pass2End

SpecWhile == InitWhile /\ [][NextWhile]_vars

\* !byte 1,2,3,4,5,6,7,8,9 / !byte 1 / !word 258 / l / lda l / nop /
\* !skip 9 / * = $fffe / !pseudopc $c000 / !realpc
ListingStatements ==
  { Directive(NoLabel, "byte", <<Num(1), Num(2), Num(3), Num(4), Num(5),
                                 Num(6), Num(7), Num(8), Num(9)>>),
    Directive(NoLabel, "byte", <<Num(1)>>),
    Directive(NoLabel, "word", <<Num(258)>>),
    LabelOnly(GlobalLabel("l")),
    Instr(NoLabel, "LDA", Plain, Sym("l")),
    Instr(NoLabel, "NOP", Plain, NoExpr),
    Directive(NoLabel, "skip", <<Num(9)>>),
    Directive(NoLabel, "org", <<Num(65534)>>),
    Directive(NoLabel, "pseudopc", <<Num(49152)>>),
    Directive(NoLabel, "realpc", <<>>) }

InitListing == InitWith({})

NextListing ==
  \/ \E src \in ListingStatements : line_no < MaxListingLines /\ Pass1Statement(src)
  \/ Pass1End
  \/ Pass2Line
  \/ Pass2End

SpecListing == InitListing /\ [][NextListing]_vars

\* !for i,255,256 { a = i } / a = 1 / a = 300 / * = $80 / * = $1000 / l /
\* lda a / lda l
FlagStatements ==
  { Block("for", <<Sym("i"), Num(255), Num(256)>>, <<Assign("a", Sym("i"))>>),
    Assign("a", Num(1)),
    Assign("a", Num(300)),
    Directive(NoLabel, "org", <<Num(128)>>),
    Directive(NoLabel, "org", <<Num(4096)>>),
    LabelOnly(GlobalLabel("l")),
    Instr(NoLabel, "LDA", Plain, Sym("a")),
    Instr(NoLabel, "LDA", Plain, Sym("l")) }

InitFlag == InitWith({})

NextFlag ==
  \/ \E src \in FlagStatements : line_no < MaxFlagLines /\ Pass1Statement(src)
  \/ Pass1End
  \/ Pass2Line
  \/ Pass2End

SpecFlag == InitFlag /\ [][NextFlag]_vars

(***************************************************************************)
(* assembler_loop_for, turn by turn.  The source is the one line           *)
(* !for i, start, end { nop }; index is the counter i of the loop,         *)
(* line_no counts its turns, and phase is "for" while the loop runs.       *)
(***************************************************************************)
\* the pairs the bounds of the loop are drawn from: at the lower limit of
\* int32_t, about zero, and at the upper limit
ForBounds ==
  ({IntMin, IntMin + 1, IntMin + 2} \X {IntMin, IntMin + 1, IntMin + 2})
    \cup ({-1, 0, 1} \X {-1, 0, 1})
    \cup ({IntMax - 2, IntMax - 1, IntMax} \X {IntMax - 2, IntMax - 1, IntMax})

ForLine(start, end) ==
  Block("for", <<Sym("i"), Num(start), Num(end)>>, <<Instr(NoLabel, "NOP", Plain, NoExpr)>>)

ForStart == source[1].args[2].number
ForEnd == source[1].args[3].number
ForStep == IF ForStart <= ForEnd THEN 1 ELSE -1

\* the test of the for statement on the counter i
ForCondition(i) == IF ForStep > 0 THEN i <= ForEnd ELSE i >= ForEnd

\* what i += step can do when the sum is no int32_t: signed overflow is
\* undefined, and a build may wrap the counter, trap, or leave the loop as
\* if the sum had been formed
OverflowOutcomes == {"wrap", "trap", "exit"}

\* the !for line is read and the loop is entered
ForEnter(start, end) ==
  /\ phase = "pass1" /\ source = <<>>
  /\ source' = <<ForLine(start, end)>>
  /\ IF as.loop_depth >= ASM_MAX_LOOP_DEPTH
     THEN as' = Fail(Pass1Enter(as, parser_parse_line(ForLine(start, end), as, 1)))
          /\ phase' = "done"
     ELSE as' = LoopRecord(Pass1Enter(as, parser_parse_line(ForLine(start, end), as, 1)),
                           "i", start, end, TRUE)
          /\ phase' = "for"
  /\ index' = start
  /\ UNCHANGED <<line_no, pass1_symbols>>

\* the body of one turn, between the push and the pop of the loop entry
ForBody(S, i) ==
  [execute_loop_body(LoopIteration(S, 1, "i", i),
                     substitute_loop_var(source[1].body, "i", i))
     EXCEPT !.loop_depth = @ - 1]

\* one turn of the loop: the body, the break on the error limit, i += step
ForTurn(outcome) ==
  /\ phase = "for" /\ line_no < MaxTurns
  /\ ForCondition(index)
  /\ line_no' = line_no + 1
  /\ IF ForBody(as, index).errors >= ASM_MAX_ERRORS
     THEN as' = LoopOver(ForBody(as, index), 1, "i", FALSE)
          /\ phase' = "done" /\ index' = index
     ELSE IF index # (IF ForStep > 0 THEN IntMax ELSE IntMin)
     THEN as' = ForBody(as, index) /\ phase' = "for" /\ index' = index + ForStep
     ELSE CASE outcome = "wrap" ->
                 as' = ForBody(as, index) /\ phase' = "for"
                 /\ index' = (IF ForStep > 0 THEN IntMin ELSE IntMax)
            [] outcome = "trap" ->
                 as' = ForBody(as, index) /\ phase' = "aborted" /\ index' = index
            [] OTHER ->
                 as' = LoopOver(ForBody(as, index), 1, "i", TRUE)
                 /\ phase' = "done" /\ index' = index
  /\ UNCHANGED <<pass1_symbols, source>>

\* the test fails and the loop is left
ForExit ==
  /\ phase = "for"
  /\ ~ForCondition(index)
  /\ as' = LoopOver(as, 1, "i", TRUE)
  /\ phase' = "done"
  /\ UNCHANGED <<line_no, index, pass1_symbols, source>>

InitFor == InitWith({})

NextFor ==
  \/ \E b \in ForBounds : ForEnter(b[1], b[2])
  \/ \E outcome \in OverflowOutcomes : ForTurn(outcome)
  \/ ForExit

SpecFor == InitFor /\ [][NextFor]_vars

InitStack == InitWith({})

NextStack ==
  \/ \E src \in StackStatements : line_no < MaxStackLines /\ Pass1Statement(src)
  \/ Pass1End
  \/ Pass2Line
  \/ Pass2End

SpecStack == InitStack /\ [][NextStack]_vars

(***************************************************************************)
(* Properties of the two passes.                                           *)
(***************************************************************************)
\* the stored line pass 2 has just replayed
Replayed == as.pass = 2 /\ index > 1 /\ index <= Len(as.lines) + 1
LastLine == as.lines[index - 1]

\* the lines of the source that assign to name
AssignmentsTo(name) ==
  {i \in 1..Len(as.lines) : as.lines[i].stmt.type = "ASSIGNMENT" /\ as.lines[i].stmt.name = name}

\* the lines of the source that carry the global label name
LabelLines(name) ==
  {i \in 1..Len(as.lines) : as.lines[i].stmt.label.kind = "global" /\ as.lines[i].stmt.label.name = name}

\* every label holds in pass 2 the value pass 1 gave it, which is the
\* stored address of a line that carries it
LabelsKeepAddress ==
  as.pass = 2 =>
    \A i \in 1..Len(as.lines) :
      LET label == as.lines[i].stmt.label IN
      (label.kind = "global" /\ AssignmentsTo(label.name) = {}
       /\ label.name \in DOMAIN pass1_symbols /\ ~pass1_symbols[label.name].constant) =>
        /\ label.name \in DOMAIN as.symbols
        /\ as.symbols[label.name].value = pass1_symbols[label.name].value
        /\ \E j \in LabelLines(label.name) : as.symbols[label.name].value = as.lines[j].address

C2_UnassignedSymbolsKeepValue ==
  (phase = "done" /\ as.pass = 2) =>
    \A n \in DOMAIN pass1_symbols :
      AssignmentsTo(n) = {} =>
        n \in DOMAIN as.symbols /\ as.symbols[n].value = pass1_symbols[n].value

\* C2 as stated: every symbol defined in pass 1 has after pass 2 the value it
\* had after pass 1 (no loop runs in these sources).
C2_Original ==
  (phase = "done" /\ as.pass = 2) =>
    \A n \in DOMAIN pass1_symbols :
      n \in DOMAIN as.symbols /\ as.symbols[n].value = pass1_symbols[n].value

\* both passes are over, a label and an assigned symbol are in the table,
\* and the assigned symbol's value changed in pass 2
C2_Witness ==
  /\ phase = "done" /\ as.pass = 2
  /\ "l" \in DOMAIN pass1_symbols /\ AssignmentsTo("l") = {}
  /\ "a" \in DOMAIN pass1_symbols /\ AssignmentsTo("a") # {}
  /\ as.symbols["a"].value # pass1_symbols["a"].value

\* C3 as stated: an expression evaluated in pass 2 as an instruction operand,
\* a data-directive argument or an assignment's right-hand side that
\* references a still-undefined symbol makes the assembly report an error.
C3_UndefinedInPass2IsError ==
  as.undefined => as.errors > 0

\* C4 as stated: an assignment outside any loop to a name that is already a
\* constant is reported as an error.
C4_DuplicateConstantIsError ==
  as.refused => as.errors > 0

\* the stored line whose statement has just been assembled, in either pass
Assembled ==
  \/ Replayed
  \/ phase = "pass1" /\ Len(as.lines) > 0 /\ as.stmt = as.lines[Len(as.lines)].stmt
        /\ as.current_line = line_no
AssembledIndex == IF as.pass = 2 THEN index - 1 ELSE Len(as.lines)

\* the lines after line i that carry a + label, and those up to line i
\* that carry a - label
PlusLinesAfter(i) == {j \in (i + 1)..Len(as.lines) : as.lines[j].stmt.label.kind = "anon_fwd"}
MinusLinesUpTo(i) == {j \in 1..i : as.lines[j].stmt.label.kind = "anon_back"}

\* the k-th smallest and the k-th largest member of a set of line numbers
KthFirst(lines, k) == CHOOSE j \in lines : Cardinality({m \in lines : m <= j}) = k
KthLast(lines, k) == CHOOSE j \in lines : Cardinality({m \in lines : m >= j}) = k

\* C5 as stated: in pass 2 a forward anonymous reference with k plus signs
\* resolves to the address of the k-th + label that follows the reference.
C5_ForwardResolvesToKthFollowing ==
  (Replayed /\ LastLine.stmt.type = "INSTRUCTION"
   /\ LastLine.stmt.operand.symbol = AnonFwdPrefix
   /\ Cardinality(PlusLinesAfter(index - 1)) >= LastLine.stmt.operand.count) =>
     /\ as.result.defined
     /\ as.result.value =
          as.lines[KthFirst(PlusLinesAfter(index - 1), LastLine.stmt.operand.count)].address

\* C6: a backward anonymous reference with k minus signs resolves, in both
\* passes, to the address of the k-th most recently defined - label at or
\* before the reference, and is undefined when fewer than k precede it.
C6_BackwardResolvesToKthPreceding ==
  (Assembled /\ as.lines[AssembledIndex].stmt.type = "INSTRUCTION"
   /\ as.lines[AssembledIndex].stmt.operand.symbol = AnonBackPrefix) =>
     LET k == as.lines[AssembledIndex].stmt.operand.count
         preceding == MinusLinesUpTo(AssembledIndex) IN
     /\ as.result.defined <=> Cardinality(preceding) >= k
     /\ as.result.defined => as.result.value = as.lines[KthLast(preceding, k)].address

\* pass 2 has resolved a -- reference with two - labels at different
\* addresses before it
C6_Witness ==
  /\ Replayed /\ LastLine.stmt.type = "INSTRUCTION"
  /\ LastLine.stmt.operand.symbol = AnonBackPrefix
  /\ LastLine.stmt.operand.count = 2
  /\ Cardinality(MinusLinesUpTo(index - 1)) >= 2
  /\ as.result.defined /\ ~as.failed
  /\ as.result.value # as.lines[KthLast(MinusLinesUpTo(index - 1), 1)].address

\* the conditional on top of the stack skips its statements
Inactive == Len(as.cond_stack) > 0 /\ ~as.cond_stack[Len(as.cond_stack)].active

\* the branch an entry has selected holds: the condition before !else, its
\* negation after
BranchHolds(entry) == entry.condition # entry.else_seen

\* C7: code is active exactly when the selected branch of every enclosing
\* conditional holds; each conditional is active iff its parent is active
\* and its selected branch holds, so !else inverts it only under an active
\* parent.
C7_ActiveIffAllBranchesHold ==
  /\ \A i \in 1..Len(as.cond_stack) :
       LET entry == as.cond_stack[i] IN
       /\ entry.parent_active = (i = 1 \/ as.cond_stack[i - 1].active)
       /\ entry.active = (entry.parent_active /\ BranchHolds(entry))
  /\ assembler_is_active(as) = \A i \in 1..Len(as.cond_stack) : BranchHolds(as.cond_stack[i])

\* under an inactive !if 0, an inner !if 0 has reached its !else: its
\* selected branch holds and it stays inactive
C7_Witness ==
  /\ phase = "pass1" /\ Len(as.cond_stack) = 2
  /\ ~as.cond_stack[1].active
  /\ as.cond_stack[2].else_seen /\ ~as.cond_stack[2].condition
  /\ ~as.cond_stack[2].active

\* C8: a statement other than a conditional directive read inside an
\* inactive branch changes nothing of the assembler but the current line
\* number: no symbol, label, stored line, byte, PC, error or stack entry.
C8_InactiveStatementHasNoEffect ==
  [][(phase = "pass1" /\ Inactive /\ line_no' = line_no + 1
      /\ ~is_conditional_directive(as'.stmt)) =>
       as' = [as EXCEPT !.current_line = line_no', !.stmt = as'.stmt,
                        !.failed = FALSE, !.trace = <<>>]]_vars

\* a labelled instruction has been read inside an inactive branch and its
\* label is not in the symbol table
C8_Witness ==
  /\ phase = "pass1" /\ Inactive /\ as.current_line = line_no
  /\ as.stmt.type = "INSTRUCTION" /\ as.stmt.label.name = "l"
  /\ "l" \notin DOMAIN as.symbols
  /\ as.errors = 0

\* C9: while a !pseudopc block is open, the bytes a statement emits are
\* written at the real PC and the following addresses, and the virtual PC
\* and the real PC both advance by the number of bytes emitted.
C9_PseudoEmitsAtRealPC ==
  [][(as.pass = 2 /\ index' = index + 1 /\ as.in_pseudopc /\ as'.trace # <<>>) =>
       LET n == Len(as'.trace) IN
       /\ as'.trace = [j \in 1..n |-> Mod16(as.real_pc + j - 1)]
       /\ DOMAIN as'.memory = DOMAIN as.memory \cup {as'.trace[j] : j \in 1..n}
       /\ as'.real_pc = Mod16(as.real_pc + n)
       /\ as'.pc = Mod16(as.lines[index].address + n)]_vars

\* pass 2 has emitted a two-byte word inside a block: the bytes lie below
\* the virtual base and the virtual PC above it
C9_Witness ==
  /\ Replayed /\ as.in_pseudopc /\ Len(as.trace) = 2
  /\ as.trace[1] < 49152 /\ as.pc > 49152
  /\ as.trace[1] \in DOMAIN as.memory

\* the line of the !pseudopc that opened the block line r is in or closes
BlockStart(r) ==
  LET opens == {p \in 1..(r - 1) : as.lines[p].stmt.type = "DIRECTIVE"
                                   /\ as.lines[p].stmt.name = "pseudopc"} IN
  CHOOSE p \in opens : \A q \in opens : q <= p

\* no * = between the opening of the block and line r
NoOrgInBlock(r) ==
  \A j \in (BlockStart(r) + 1)..(r - 1) :
    ~(as.lines[j].stmt.type = "DIRECTIVE" /\ as.lines[j].stmt.name = "org")

ClosesBlock == Replayed /\ LastLine.stmt.type = "DIRECTIVE"
               /\ LastLine.stmt.name = "realpc" /\ ~as.failed

\* the label of the replayed line and the place of the line's first byte
LabelledByte == Replayed /\ as.errors = 0 /\ LastLine.stmt.type = "INSTRUCTION"
                /\ LastLine.stmt.label.kind = "global" /\ as.trace # <<>>

\* C10 (as amended): after !realpc the PC is the real address after the
\* last byte emitted or skipped inside the block, which is the PC pass 1 had
\* there; a label inside the block holds its virtual address, a label after
\* it the real address of its byte, with the values pass 1 gave.
C10_RealpcRestoresRealAddress ==
  /\ ClosesBlock =>
       /\ as.pc = Mod16(as.lines[BlockStart(index - 1)].address
                        + Len(as.block_trace) + as.block_skipped)
       /\ as.errors = 0 => as.pc = as.lines[index].address
  /\ LabelledByte =>
       /\ ~as.in_pseudopc => LastLine.address = as.trace[1]
       /\ (as.in_pseudopc /\ NoOrgInBlock(index - 1)) =>
            LET open == as.lines[BlockStart(index - 1)] IN
            LastLine.address - open.stmt.args[1].number = as.trace[1] - open.address
       /\ LastLine.stmt.label.name \in DOMAIN as.symbols
       /\ as.symbols[LastLine.stmt.label.name] = pass1_symbols[LastLine.stmt.label.name]
       /\ \E j \in LabelLines(LastLine.stmt.label.name) :
            as.symbols[LastLine.stmt.label.name].value = as.lines[j].address

\* C10 as stated: after !realpc the PC is the real address immediately
\* after the last byte emitted inside the block.
C10_Original ==
  (ClosesBlock /\ as.block_trace # <<>>) =>
    as.pc = Mod16(as.block_trace[Len(as.block_trace)] + 1)

\* pass 2 has closed a block that emitted a byte and has placed a labelled
\* byte after it, with no error
C10_Witness ==
  /\ LabelledByte /\ ~as.in_pseudopc
  /\ as.block_trace # <<>>
  /\ \E r \in 1..(index - 2) : as.lines[r].stmt.type = "DIRECTIVE" /\ as.lines[r].stmt.name = "realpc"
  /\ as.symbols["l"].value = as.trace[1]
  /\ as.trace[1] < 49152

\* pass 2 has replayed a relative branch whose operand is defined
BranchReplayed ==
  /\ Replayed /\ LastLine.stmt.type = "INSTRUCTION" /\ LastLine.stmt.mode = "RELATIVE"
  /\ as.result.role = "operand" /\ as.result.defined

\* the offset of the replayed branch: the operand's value less the address
\* after the instruction
BranchOffset == as.result.value - (LastLine.address + 2)

\* C11 as stated: a relative branch is encoded, with offset target - (pc+2),
\* exactly when that offset lies in -128..+127; otherwise a
\* branch-out-of-range error is reported and nothing is emitted.
C11_BranchEncodedIffInRange ==
  BranchReplayed =>
    IF BranchOffset >= -128 /\ BranchOffset <= 127
    THEN /\ ~as.failed
         /\ as.trace = <<LastLine.address, Mod16(LastLine.address + 1)>>
         /\ MemAt(as.memory, LastLine.address) = LastLine.stmt.opcode
         /\ MemAt(as.memory, Mod16(LastLine.address + 1)) = BranchOffset % 256
    ELSE as.failed /\ as.errors > 0 /\ as.trace = <<>>

\* the same statement for the targets that are 16-bit addresses
C11_SixteenBitTargets ==
  (BranchReplayed /\ as.result.value >= 0 /\ as.result.value < ASM_MEMORY_SIZE) =>
    C11_BranchEncodedIffInRange

\* the addresses written so far
Written == DOMAIN as.memory

\* C12: lowest_addr and highest_addr are the smallest and the largest
\* address written; the output starts at lowest_addr and has
\* highest_addr - lowest_addr + 1 bytes, two more in a PRG file; when no
\* byte was written the output is empty and no file is produced.
C12_OutputBounds ==
  IF Written = {}
  THEN /\ assembler_get_output(as).size = 0
       /\ ~assembler_write_output(as, TRUE).written
       /\ ~assembler_write_output(as, FALSE).written
  ELSE /\ as.lowest_addr \in Written /\ \A w \in Written : as.lowest_addr <= w
       /\ as.highest_addr \in Written /\ \A w \in Written : w <= as.highest_addr
       /\ assembler_get_output(as) =
            [start_addr |-> as.lowest_addr, size |-> as.highest_addr - as.lowest_addr + 1]
       /\ assembler_write_output(as, TRUE) =
            [written |-> TRUE, length |-> as.highest_addr - as.lowest_addr + 3,
             warnings |-> as.warnings]
       /\ assembler_write_output(as, FALSE).length = as.highest_addr - as.lowest_addr + 1

\* the assembly is over with bytes written on both sides of a gap, so the
\* output slice is longer than the number of bytes written
C12_Witness ==
  /\ phase = "done" /\ as.errors = 0
  /\ Cardinality(Written) >= 2
  /\ assembler_get_output(as).size > Cardinality(Written)


(***************************************************************************)
(* Loops.                                                                  *)
(***************************************************************************)
\* the integers from a to b, each next one towards b
RECURSIVE Towards(_, _)
Towards(a, b) ==
  IF a = b THEN <<b>>
  ELSE <<a>> \o Towards(IF a < b THEN a + 1 ELSE a - 1, b)

\* C13: `!for v, a, b` executes its body exactly |b - a| + 1 times, with v
\* bound to a, then each next integer towards b, then b, in that order:
\* every !for line met with defined bounds has executed its body for
\* exactly the values from a towards b
C13_ForRunsEveryValue ==
  \A k \in DOMAIN as.iterations :
    as.iterations[k].values = Towards(as.iterations[k].start, as.iterations[k].end)

\* the same of the !for lines that do not stand in a macro body
C13_OutsideMacros ==
  \A k \in DOMAIN as.iterations :
    as.iterations[k].macro_depth = 0 =>
      as.iterations[k].values = Towards(as.iterations[k].start, as.iterations[k].end)

\* what a defined symbol of value n holds
Holds(n) == [defined |-> TRUE, value |-> n]

\* C14: during each iteration of `!for v, a, b` the symbol v holds that
\* iteration's value, and after the loop completes v is defined and equals
\* b, whatever v was before the loop: of every loop that was executed
C14_VariableHoldsIterationValue ==
  \A k \in DOMAIN as.iterations :
    as.iterations[k].handled =>
      /\ \A j \in DOMAIN as.iterations[k].values :
           as.iterations[k].held[j] = Holds(as.iterations[k].values[j])
      /\ as.iterations[k].done => as.iterations[k].after = Holds(as.iterations[k].end)

\* the same of the loops whose variable was no constant when they started
C14_UnlessConstant ==
  \A k \in DOMAIN as.iterations :
    (as.iterations[k].handled /\ ~as.iterations[k].constant) =>
      /\ \A j \in DOMAIN as.iterations[k].values :
           as.iterations[k].held[j] = Holds(as.iterations[k].values[j])
      /\ as.iterations[k].done => as.iterations[k].after = Holds(as.iterations[k].end)

(***************************************************************************)
(* Macros.                                                                 *)
(***************************************************************************)
\* the stored lines of macro expansions that define a local label
LocalLabelLines ==
  {i \in DOMAIN as.lines : as.lines[i].expansion > 0 /\ as.lines[i].stmt.label.kind = "local"}

\* the symbol the local label of line i is defined as
LabelSymbol(i) == mangle_local_name(as.lines[i].stmt.label.name, as.lines[i].zone)

\* no line of the same expansion before line i defines a global label or
\* is a !zone directive
NoGlobalBefore(i) ==
  \A k \in 1..(i - 1) :
    as.lines[k].expansion = as.lines[i].expansion =>
      /\ as.lines[k].stmt.label.kind # "global"
      /\ ~(as.lines[k].stmt.type = "DIRECTIVE" /\ as.lines[k].stmt.name \in {"zone", "zn"})

\* pass 2 has just replayed an instruction of an expansion whose operand
\* is a local reference
LocalReferenceReplayed ==
  /\ Replayed /\ LastLine.expansion > 0 /\ LastLine.stmt.type = "INSTRUCTION"
  /\ LastLine.stmt.operand.type = "symbol" /\ LastLine.stmt.operand.local
  /\ as.result.role = "operand"

\* the lines of the expansion of the replayed line that define the label
\* it refers to
ReferredLines ==
  {k \in LocalLabelLines : /\ as.lines[k].expansion = LastLine.expansion
                           /\ as.lines[k].stmt.label.name = LastLine.stmt.operand.symbol}

\* C15 as stated: a local label defined inside a macro body yields a
\* distinct symbol for each expansion of the macro, and a reference to it
\* inside the body resolves in pass 2 to the label of the same expansion
C15_Original ==
  /\ \A i, j \in LocalLabelLines :
       as.lines[i].expansion # as.lines[j].expansion => LabelSymbol(i) # LabelSymbol(j)
  /\ LocalReferenceReplayed =>
       \A k \in ReferredLines : as.result.defined /\ as.result.value = as.lines[k].address

\* C15: a local label defined inside a macro body before any global label
\* or !zone directive of that body yields a distinct symbol for each
\* expansion of the macro, and a reference to it that also stands before
\* any global label or !zone directive of the body resolves in pass 2 to
\* the label of the same expansion
C15_LocalLabelsPerExpansion ==
  /\ \A i, j \in LocalLabelLines :
       (as.lines[i].expansion # as.lines[j].expansion /\ NoGlobalBefore(i) /\ NoGlobalBefore(j))
         => LabelSymbol(i) # LabelSymbol(j)
  /\ (LocalReferenceReplayed /\ NoGlobalBefore(index - 1)) =>
       \A k \in ReferredLines :
         NoGlobalBefore(k) => as.result.defined /\ as.result.value = as.lines[k].address

\* pass 2 has resolved the reference of the first of two expansions of one
\* body to that expansion's own label
C15_Witness ==
  /\ LocalReferenceReplayed /\ NoGlobalBefore(index - 1)
  /\ \E k \in ReferredLines, j \in LocalLabelLines :
       /\ as.lines[j].expansion > LastLine.expansion
       /\ as.lines[j].stmt.label.name = as.lines[k].stmt.label.name
       /\ as.result.value = as.lines[k].address
       /\ as.lines[j].address # as.lines[k].address

\* the zone name of the expansion of unique id n
MacroZone(n) == "_macro_" \o ToString(n)

\* C16: a macro expansion runs under a fresh zone `_macro_<unique_id>`, and
\* after any expansion returns (normally or with an error, at any nesting
\* depth) the current zone is the zone that was current just before the
\* invocation: every call of macro_expand that expanded a body installed
\* the zone of an id no other expansion has, the lines of the body up to
\* its first global label or !zone carry that zone, and every call,
\* refused or not, returned with the zone it was made under
C16_ExpansionZone ==
  /\ \A k \in DOMAIN as.expansions :
       /\ as.expansions[k].after = as.expansions[k].before
       /\ as.expansions[k].id > 0 =>
            /\ as.expansions[k].entered = MacroZone(as.expansions[k].id)
            /\ as.expansions[k].entered # as.expansions[k].before
            /\ \A j \in DOMAIN as.expansions :
                 j # k => as.expansions[j].id # as.expansions[k].id
  /\ \A i \in DOMAIN as.lines :
       (as.lines[i].expansion > 0 /\ NoGlobalBefore(i)) =>
         as.lines[i].zone = MacroZone(as.lines[i].expansion)

\* an expansion called from inside expansion 1 has returned to the zone of
\* expansion 1, whose lines carry that zone, and expansion 1 has returned
\* to the zone of the source
C16_Witness ==
  /\ \E k \in DOMAIN as.expansions :
       /\ as.expansions[k].id > 0 /\ as.expansions[k].depth = 1
       /\ as.expansions[k].before = MacroZone(1) /\ as.expansions[k].after = MacroZone(1)
  /\ \E i \in DOMAIN as.lines : as.lines[i].expansion = 1 /\ as.lines[i].zone = MacroZone(1)
  /\ as.current_zone = NullZone

(***************************************************************************)
(* Included files.                                                         *)
(***************************************************************************)
\* the result of an assembly: the byte image, the symbol values and
\* success or failure
Outcome(S) ==
  [memory |-> S.memory, lowest_addr |-> S.lowest_addr, highest_addr |-> S.highest_addr,
   symbols |-> [n \in DOMAIN S.symbols |-> SymbolValue(S.symbols, n)],
   failure |-> S.errors > 0]

\* the source with the lines after line k moved into the file x.asm and
\* replaced by !source "x.asm"
TailIncluded(k) ==
  SubSeq(source, 1, k)
    \o <<Block("source", <<Sym("x.asm")>>, SubSeq(source, k + 1, Len(source)))>>

\* the object after pass 1 has read the first k lines of the source
ReadUpTo(k) == Lines(assembler_reset(assembler_create, {}), SubSeq(source, 1, k), 1, "main")

\* C17 as stated: assembling a source in which a tail of the text has been
\* moved into a file and replaced by `!source` gives the same result (byte
\* image, symbol values, success or failure) as assembling the original
C17_Original ==
  phase = "done" =>
    \A k \in 0..Len(source) :
      Outcome(assembler_assemble_string(assembler_create, {}, TailIncluded(k))) = Outcome(as)

\* C17: the same, where the `!source` line stands between statements of
\* the source (not inside the lines a !macro, !for or !while collects) and
\* is not skipped by a false conditional
C17_IncludedTailGivesSameResult ==
  phase = "done" =>
    \A k \in 0..Len(source) :
      assembler_is_active(ReadUpTo(k)) =>
        Outcome(assembler_assemble_string(assembler_create, {}, TailIncluded(k))) = Outcome(as)

\* a source of a forward branch and its label, in two or more lines, has
\* been assembled, and so has the same with the label's line included
C17_Witness ==
  /\ phase = "done" /\ as.errors = 0 /\ Len(source) >= 2
  /\ DOMAIN as.memory # {} /\ "l" \in DOMAIN as.symbols
  /\ source[1].name = "BNE"
  /\ assembler_is_active(ReadUpTo(1))
  /\ Outcome(assembler_assemble_string(assembler_create, {}, TailIncluded(1))) = Outcome(as)

(***************************************************************************)
(* Reuse of the assembler object.                                          *)
(***************************************************************************)
\* the byte image and the diagnostics of an assembly
Diagnosed(S) ==
  [memory |-> S.memory, lowest_addr |-> S.lowest_addr, highest_addr |-> S.highest_addr,
   errors |-> S.errors, warnings |-> S.warnings]

\* C18: assembling identical input always yields the identical byte image
\* and the identical set of diagnostics; the result depends only on the
\* source and the command-line defines, not on what the same assembler
\* object assembled before: an assembly that is over has the image and the
\* diagnostics of the assembly of its source by a new object
C18_SameInputSameResult ==
  phase = "done" =>
    Diagnosed(as) = Diagnosed(assembler_assemble_string(assembler_create, {}, source))

\* the same of the first assembly of an object
C18_FirstAssembly ==
  (phase = "done" /\ as.runs = 1) =>
    Diagnosed(as) = Diagnosed(assembler_assemble_string(assembler_create, {}, source))

\* the symbols an assembly leaves are those a new object leaves
C18_SameSymbols ==
  phase = "done" =>
    DOMAIN as.symbols = DOMAIN assembler_assemble_string(assembler_create, {}, source).symbols

(***************************************************************************)
(* Outcome and error limit.                                                *)
(***************************************************************************)
\* the value assembler_assemble_string returns when the assembly is over
Returned == as.errors

\* C19: the assembly outcome is failure if and only if at least one error
\* was reported in either pass; warnings alone never make it fail
C19_FailureIffErrorReported ==
  phase = "done" =>
    /\ (Returned # 0) <=> (as.reported > 0)
    /\ (as.reported = 0 /\ as.warnings > 0) => Returned = 0

\* an assembly with a warning and no error has succeeded and emitted code
C19_Witness ==
  /\ phase = "done" /\ as.warnings > 0 /\ as.reported = 0
  /\ Returned = 0 /\ DOMAIN as.memory # {}

\* C20: once the running error count reaches the error limit, the current
\* pass halts: no later statement of that pass is processed, including
\* statements inside macro expansions, loop bodies and included files
C20_NoStatementAfterLimit == as.late = 0

\* the same of the sources whose statements are instructions, data
\* directives and assignments only
C20_AfterPlainStatements ==
  (\A k \in DOMAIN source : source[k].body = <<>> /\ source[k].type # "MACRO_CALL")
    => as.late = 0

\* an assembly has failed on an error of pass 2 alone
C19_Pass2Failure ==
  phase = "done" /\ as.pass = 2 /\ as.reported > 0 /\ Returned # 0

(***************************************************************************)
(* CPU selection.                                                          *)
(***************************************************************************)
\* the statement just assembled is an instruction with an illegal-opcode
\* mnemonic
IllegalAssembled ==
  /\ phase \in {"pass1", "pass2"}
  /\ as.stmt.type = "INSTRUCTION"
  /\ opcode_is_illegal(as.stmt.name)

\* C21: an instruction with an illegal-opcode mnemonic assembled while the
\* CPU is the 6502 or the 65C02 reports an error, and one assembled while
\* the CPU is the 6510, the CPU of a new assembler, reports none.
C21_IllegalOpcodeGated ==
  IllegalAssembled =>
    (as.failed <=> ~assembler_opcode_valid_for_cpu(as, as.stmt.opcode))

\* C21, the second half alone: under the 6510 the instruction is accepted
C21_AcceptedUnder6510 ==
  (IllegalAssembled /\ as.cpu_type = "CPU_6510") => ~as.failed

(***************************************************************************)
(* Unclosed conditionals.                                                  *)
(***************************************************************************)
\* pass 1 leaves its reading loop and returns
Pass1Returns == phase = "pass1" /\ phase' # "pass1"

\* C22: when pass 1 reaches the end of the input with a conditional opened
\* by !if, !ifdef or !ifndef still on the stack, the assembly has errors,
\* and the check after the loop reports one more error unless the error
\* count is at its limit already.
C22_UnclosedConditionalReported ==
  [][(Pass1Returns /\ Len(as.cond_stack) > 0) =>
       /\ as'.errors > 0
       /\ as.errors < ASM_MAX_ERRORS => as'.reported = as.reported + 1]_vars

\* pass 1 has returned with a conditional open and the error of the check
\* as its only error: every statement of the source assembled cleanly
C22_Witness ==
  /\ phase = "done"
  /\ as.pass = 1
  /\ Len(as.cond_stack) > 0
  /\ as.reported = 1
  /\ \E i \in 1..Len(source) : source[i].name = "ifndef"

(***************************************************************************)
(* Misplaced !pseudopc and !realpc.                                        *)
(***************************************************************************)
\* the lines of a text that are !pseudopc or !realpc directives
BlockMarks(text) ==
  {p \in 1..Len(text) : text[p].type = "DIRECTIVE" /\ text[p].name \in {"pseudopc", "realpc"}}

\* a block is open at the end of the text: its last mark is a !pseudopc
BlockOpenAfter(text) ==
  \E p \in BlockMarks(text) :
    /\ text[p].name = "pseudopc"
    /\ \A q \in BlockMarks(text) : q <= p

\* pass 1 reads the directive name as its next line
Pass1Reads(name) ==
  /\ phase = "pass1" /\ line_no' = line_no + 1
  /\ as'.stmt.type = "DIRECTIVE" /\ as'.stmt.name = name

\* the step has ended in an error: the handler has returned -1 and the
\* assembly has errors; the error is one more message while the count of
\* errors is below its limit
ErrorReported ==
  /\ as'.failed /\ as'.errors > 0
  /\ as.errors < ASM_MAX_ERRORS => as'.reported = as.reported + 1

\* C23: a !pseudopc read while a block is open, and a !realpc read while
\* none is open, each report an error.
C23_MisplacedPseudopcIsError ==
  [][/\ (Pass1Reads("pseudopc") /\ BlockOpenAfter(source)) => ErrorReported
     /\ (Pass1Reads("realpc") /\ ~BlockOpenAfter(source)) => ErrorReported]_vars

\* !realpc / !pseudopc $c000 / !pseudopc $c000: the first and the third
\* line have each reported an error, the second has opened a block
C23_Witness ==
  /\ phase = "pass1" /\ Len(source) = 3
  /\ source[1].name = "realpc" /\ source[2].name = "pseudopc" /\ source[3].name = "pseudopc"
  /\ as.in_pseudopc /\ as.failed /\ as.reported = 2

(***************************************************************************)
(* !while loops.                                                           *)
(***************************************************************************)
\* the loop of record w has evaluated its condition before each execution
\* of its body and has found it defined and not zero; it has executed its
\* body at most the limit of times; it has ended on a condition that is zero
\* or undefined, or on the limit, or on the limit of errors
TestedBeforeEachRun(w) ==
  /\ w.runs <= WhileMaxIterations
  /\ Len(w.tests) \in {w.runs, w.runs + 1}
  /\ \A j \in 1..Len(w.tests) :
       (j <= w.runs) <=> (w.tests[j].defined /\ w.tests[j].value # 0)
  /\ w.capped <=> w.runs = WhileMaxIterations

\* C24: every !while line met in active text has evaluated its condition
\* before each execution of its body, has executed the body at most 100000
\* times, and has ended with an error when that limit was reached.
C24_WhileTestsBeforeEachIteration ==
  \A k \in DOMAIN as.whiles : TestedBeforeEachRun(as.whiles[k])

\* the same of the !while lines that do not stand in a macro body
C24_OutsideMacros ==
  \A k \in DOMAIN as.whiles :
    as.whiles[k].macro_depth = 0 => TestedBeforeEachRun(as.whiles[k])

\* a loop outside macros has executed its body twice, after two tests, and
\* has ended on the third
C24_TwoIterations ==
  \E k \in DOMAIN as.whiles :
    /\ as.whiles[k].handled /\ as.whiles[k].runs = 2 /\ Len(as.whiles[k].tests) = 3
    /\ as.errors = 0 /\ phase = "done"

(***************************************************************************)
(* Stack depths.                                                           *)
(***************************************************************************)
\* no stack has been deeper than its maximum, and the loop, expansion and
\* include stacks, pushed and popped inside one statement, are empty
\* between statements
StacksBounded ==
  /\ Len(as.cond_stack) <= ASM_MAX_COND_DEPTH
  /\ as.peak.cond <= ASM_MAX_COND_DEPTH
  /\ as.peak.loop <= ASM_MAX_LOOP_DEPTH
  /\ as.peak.macro <= ASM_MAX_MACRO_DEPTH
  /\ as.peak.include <= ASM_MAX_INCLUDE_DEPTH
  /\ as.loop_depth = 0 /\ as.macro_depth = 0 /\ as.macro_stack = <<>>
  /\ as.include_depth = 0

\* pass 1 reads a single conditional directive as its next line
Pass1ReadsConditional(names) ==
  /\ phase = "pass1" /\ line_no' = line_no + 1
  /\ as'.stmt.type = "DIRECTIVE" /\ as'.stmt.name \in names
  /\ source'[line_no'].body = <<>>

\* the step leaves the entries below the top of the conditional stack alone
KeepsBelowTop(n) == SubSeq(as'.cond_stack, 1, n) = SubSeq(as.cond_stack, 1, n)

IsPlusLine(l) == l.stmt.label.kind = "anon_fwd"

\* the addresses of the + labels pass 1 stored, in the order of their lines
PlusAddresses(lines) ==
  [j \in 1..Len(SelectSeq(lines, IsPlusLine)) |-> SelectSeq(lines, IsPlusLine)[j].address]

\* C26: when pass 2 starts, the backward list is empty, the forward cursor
\* is at the start and the forward list is the list pass 1 left, the
\* addresses of the + labels in the order of their lines; throughout pass 2
\* these entries keep their positions in the list.
C26_TrackerBetweenPasses ==
  /\ [][(phase = "pass1" /\ phase' = "pass2") =>
          /\ as'.backward = <<>>
          /\ as'.forward_index = 0
          /\ as'.forward = as.forward
          /\ as'.forward = PlusAddresses(as'.lines)]_vars
  /\ [](phase = "pass2" =>
          /\ Len(as.forward) >= Len(PlusAddresses(as.lines))
          /\ SubSeq(as.forward, 1, Len(PlusAddresses(as.lines))) = PlusAddresses(as.lines))

\* pass 2 is about to start on a source with two + labels and a - label:
\* the forward list holds the two addresses, the backward list is empty
C26_Witness ==
  /\ phase = "pass2" /\ index = 1
  /\ Len(as.forward) = 2 /\ as.forward[1] < as.forward[2]
  /\ as.forward_index = 0 /\ as.backward = <<>>
  /\ \E j \in 1..Len(as.lines) : as.lines[j].stmt.label.kind = "anon_back"

(***************************************************************************)
(* The listing record of a line.                                           *)
(***************************************************************************)
\* pass 2 replays stored line index in this step
Replays == as.pass = 2 /\ phase = "pass2" /\ index' = index + 1

\* the output address at which the replayed line starts
ReplayStart == IF as.in_pseudopc THEN as.real_pc ELSE as.lines[index].address

\* the replayed line is an instruction or a !byte or !word line
SizedByText(l) ==
  \/ l.stmt.type = "INSTRUCTION"
  \/ l.stmt.type = "DIRECTIVE" /\ l.stmt.name \in {"byte", "word"}

\* C27 as stated: after pass 2 has replayed a line, the byte_count of its
\* record equals the size pass 1 committed for the line.
C27_ByteCountIsCommittedSize ==
  Replayed => LastLine.byte_count = LastLine.committed

\* C27 (as amended): for a line that pass 2 assembles without error and
\* that ends below the top of memory, the byte_count of an instruction, !byte
\* or !word line is the size pass 1 committed, or 8 when that size is more
\* than 8; it is zero for a label-only or empty line and for a directive that
\* leaves the output address where it was.
C27_ByteCountCapped ==
  [][(Replays /\ ~as'.failed /\ OutputPC(as') >= ReplayStart) =>
       LET l == as'.lines[index] IN
       /\ SizedByText(l) =>
            l.byte_count = (IF l.committed > 8 THEN 8 ELSE l.committed)
       /\ l.stmt.type \in {"EMPTY", "LABEL"} => l.byte_count = 0
       /\ (l.stmt.type = "DIRECTIVE" /\ OutputPC(as') = ReplayStart) =>
            l.byte_count = 0]_vars

\* pass 2 has replayed a nine-byte !byte line: nine bytes are in memory
\* and the record counts eight
C27_Witness ==
  /\ Replayed /\ ~as.failed
  /\ LastLine.stmt.type = "DIRECTIVE" /\ LastLine.stmt.name = "byte"
  /\ LastLine.committed = 9 /\ Len(as.trace) = 9
  /\ LastLine.byte_count = 8 /\ Len(LastLine.bytes) = 8
  /\ \E i \in 1..Len(as.lines) : as.lines[i].stmt.type = "LABEL" /\ as.lines[i].byte_count = 0

(***************************************************************************)
(* The ZEROPAGE flag of a symbol.                                          *)
(***************************************************************************)
\* C28: no symbol whose value is above $FF carries the ZEROPAGE flag.
C28_NoFlagAbove255 ==
  \A n \in DOMAIN as.symbols : as.symbols[n].value > 255 => ~as.symbols[n].zeropage

\* what the code does instead: a flag that is set stays set
C28_FlagNeverCleared ==
  [][\A n \in DOMAIN as.symbols :
       as.symbols[n].zeropage => n \in DOMAIN as'.symbols /\ as'.symbols[n].zeropage]_vars

\* the loop has assigned 255 and then 256 to a: the value is 256 and the
\* flag is set, with no error
C28_StaleFlag ==
  /\ "a" \in DOMAIN as.symbols /\ as.symbols["a"].value = 256 /\ as.symbols["a"].zeropage
  /\ as.errors = 0 /\ Len(source) = 1

(***************************************************************************)
(* Included files and the conditional stack.                               *)
(***************************************************************************)
\* pass 1 reads a !source line in this step, with no error so far and no
\* macro defined yet that the file would define again
ReadsSource ==
  /\ phase = "pass1" /\ line_no' = line_no + 1 /\ as.errors = 0
  /\ DOMAIN as.macros = {}
  /\ source'[line_no'].type = "DIRECTIVE" /\ source'[line_no'].name = "source"

\* C29: a !source line read inside an open, active conditional of the
\* including file reports no error at the end of the (error-free) included
\* file.
C29_SourceTransparentToConditionals ==
  [][(ReadsSource /\ Len(as.cond_stack) > 0 /\ assembler_is_active(as)) =>
       as'.errors = 0]_vars

\* outside every conditional the same !source line reports no error and
\* leaves the conditional stack empty
C29_OutsideConditionals ==
  [][(ReadsSource /\ Len(as.cond_stack) = 0) =>
       as'.errors = 0 /\ as'.cond_stack = <<>>]_vars

\* !if 1 / !source a.asm / !endif: every conditional is closed in the
\* including file, and the end of a.asm and of the b.asm it includes have
\* each reported an error
C29_UnterminatedAtEndOfFile ==
  /\ phase = "done" /\ Len(source) = 3
  /\ source[1].name = "if" /\ source[2].name = "source" /\ source[3].name = "endif"
  /\ as.cond_stack = <<>>
  /\ as.errors = 2 /\ as.reported = 2

(***************************************************************************)
(* The termination of !for.                                                *)
(***************************************************************************)
\* the loop makes a turn in this step
Turns == phase = "for" /\ ForCondition(index) /\ line_no' = line_no + 1

\* the counter j is nearer to the end bound than i, on the side of i
Nearer(i, j) == IF ForStep > 0 THEN i < j /\ j <= ForEnd ELSE ForEnd <= j /\ j < i

\* C30: !for terminates for every pair of 32-bit bounds: each turn brings
\* the counter nearer to the end bound, and after the turn on the end bound
\* the test fails and the loop is left.
C30_ForTerminates ==
  [][Turns =>
       IF index = ForEnd
       THEN phase' = "done" \/ (phase' = "for" /\ ~ForCondition(index'))
       ELSE phase' = "for" /\ Nearer(index, index')]_vars

\* a loop whose end bound is not the limit of int32_t in its direction
\* terminates in that way
C30_TerminatesBelowLimits ==
  [][(Turns /\ ForEnd # (IF ForStep > 0 THEN IntMax ELSE IntMin)) =>
       IF index = ForEnd
       THEN phase' = "for" /\ ~ForCondition(index') /\ index' = ForEnd + ForStep
       ELSE phase' = "for" /\ Nearer(index, index')]_vars

\* !for i, 2147483647, 2147483647: after the one turn the bounds ask for the
\* counter has wrapped to -2147483648, and the loop is in a further turn
C30_WrappedCounter ==
  /\ phase = "for" /\ ForStart = IntMax /\ ForEnd = IntMax
  /\ line_no >= 2 /\ index < 0 /\ ForCondition(index)
  /\ Len(as.iterations[1].values) = line_no

=========================================================================
